---------------------------- MODULE Spec2Model ----------------------------
(***************************************************************************)
(* A model of the analytical engine of KR_LITE_effect_calculation          *)
(* (src/calculator.py, class EffectCalculator):                            *)
(*   - round_price, the plan-price rounding closure;                       *)
(*   - find_valid_pre_test_period, the pre-test window selector;           *)
(*   - get_activation_details, the price-activation state machine;         *)
(*   - calculate, the baseline-normalised effect estimator.                *)
(*                                                                         *)
(* Prices are integers in kopecks (1/100 of the currency unit); a weighted *)
(* average price is the exact fraction <<revenue, quantity>>.  Python's    *)
(* None is the empty tuple and a present value v is <<v>>.  Weeks are      *)
(* integers: week w starts on the Monday 7*w days after an origin Monday.  *)
(***************************************************************************)
EXTENDS Integers, Sequences, FiniteSets, TLC

VARIABLES
    \* ---- round_price applied to one raw price (specification SpecRound)
    rp_pc,            \* "idle" | "start" | "once" | "twice"
    rp_price,         \* the raw price handed to round_price
    rp_round_value,   \* the round_value parameter as passed by the caller
    rp_direction,     \* round_direction
    rp_fp,            \* outcome of the two binary floating-point borderline comparisons
    rp_once,          \* round_price(price)
    rp_twice,         \* round_price(round_price(price))
    rp_weekly,        \* None, or Some of the plan price get_weekly_details computes
    \* ---- find_valid_pre_test_period on one product (specification SpecSelect)
    sel_pc,             \* "idle" | "start" | "done"
    stock_days_lookup,  \* week -> days with stock > 0, for the weeks the cost history covers
    start_search_week,  \* the search end-week
    n_weeks,            \* N, the number of pre-test weeks wanted
    threshold_pct,      \* tau, the availability threshold in percent
    contiguous,         \* the mode flag
    sel_result,         \* None, or Some(list of weeks)
    \* ---- get_activation_details walking one product (specification Spec)
    act_pc,                   \* "idle" | "walk" | "done" | "raised"
    params,                   \* the arguments of get_activation_details
    product_prices,           \* the product's price-change orders read so far, by date
    test_week,                \* the week of test_weeks the walk is at
    last_known_is_our_price,
    is_first_period,
    blocked_same_price,
    last_applied_plan_price,
    prev_fact_price,
    activation_weeks,         \* week_start of every row appended to activation_results
    last_row,                 \* the row appended last (None before the first), with the
                              \* locals has_sales and first_occurrence_date of its iteration
    pre_test_fact_price,      \* revenue / quantity of the last pre-test week with sales
    \* ---- calculate on one test product and the control group (specification SpecEffect)
    eff_pc,                   \* "idle" | "start" | "weeks" | "skipped" | "raised" | "done"
    eff_params,               \* the arguments of calculate used in the loop over weeks
    test_period_start_week,   \* the first week of the product's test period
    baseline,                 \* the pre-test values of the product (None before they are computed)
    week_data,                \* the aggregates of the weeks read so far, from the test start
    results,                  \* the rows appended to results
    totals,                   \* None, or <<Total_Effect_Revenue, Total_Effect_Profit>>
    \* ---- the fact price of one week of one product (specification SpecWap)
    wap_pc,                   \* "idle" | "start" | "done"
    wap_in,                   \* the arguments, the plan price, the change date, the sales
    wap_out,                  \* None, or Some(<<fact_price, has_sales, first_occurrence_date>>)
    \* ---- get_activation_details over several products (specification SpecProducts)
    mp_pc,                    \* "idle" | "start" | "all" | "returned" | "one" | "both"
    mp_data,                  \* product id -> the product's orders, sales and pre-test price
    mp_order,                 \* test_product_ids in the order the set iterates
    mp_pid,                   \* specific_pid of the second call
    mp_call,                  \* the call in progress: target_pids left, the week and the
                              \* running state of the first of them, and activation_results
    mp_all,                   \* the rows returned by the call for all products
    mp_one,                   \* the rows returned by the call with specific_pid
    \* ---- preprocess (specification SpecPreprocess)
    pp_pc,                    \* "idle" | "start" | "done"
    pp_sales,                 \* the sales table as read
    pp_costs,                 \* the cost and stock table as read
    pp_out,                   \* None, or Some of the tables preprocess leaves
    \* ---- calculate with the activation classification (specification SpecEvidence)
    ev_pc,                    \* "idle" | "classify" | "weeks" | "done"
    ev_data,                  \* the arguments and the weekly data of the run
    ev_walk,                  \* the week the current loop is at, and the classifier's
                              \* running state
    activation_df,            \* the rows returned by get_activation_details
    activation_status_map,    \* week_start -> Status (line 1422)
    ev_results,               \* the rows appended to results
    \* ---- the stock days of one week (specification SpecStockDays)
    sd_pc,                    \* "idle" | "start" | "done"
    sd_costs,                 \* the costs table of the product, in date order
    sd_out,                   \* None, or Some of stock_days and stock_pct of the week
    \* ---- analyze_revaluation_activation on one product (specification SpecRevaluation)
    rv_pc,                    \* "idle" | "classify" | "revaluations" | "done"
    rv_data,                  \* the product's orders, sales and pre-test price
    rv_walk,                  \* the position of the current loop, and the classifier's
                              \* running state
    rv_activation,            \* activation_df: the rows of get_activation_details
    detail_results,           \* the detail rows appended so far
    \* ---- the presentation history of one directory (specification SpecHistory)
    hs_max_history,           \* max_history of the calls (0 when the component is idle)
    hs_now,                   \* the clock, in half seconds
    hs_history,               \* the list in presentation_history.json
    hs_files,                 \* the names of the presentation files in static
    hs_saved                  \* the file names returned by the calls so far, in order

rpVars == <<rp_pc, rp_price, rp_round_value, rp_direction, rp_fp, rp_once, rp_twice, rp_weekly>>

selVars == <<sel_pc, stock_days_lookup, start_search_week, n_weeks, threshold_pct,
             contiguous, sel_result>>

actVars == <<act_pc, params, product_prices, test_week, last_known_is_our_price, is_first_period,
             blocked_same_price, last_applied_plan_price, prev_fact_price,
             activation_weeks, last_row, pre_test_fact_price>>

effVars == <<eff_pc, eff_params, test_period_start_week, baseline, week_data, results, totals>>

wapVars == <<wap_pc, wap_in, wap_out>>

mpVars == <<mp_pc, mp_data, mp_order, mp_pid, mp_call, mp_all, mp_one>>

ppVars == <<pp_pc, pp_sales, pp_costs, pp_out>>

evVars == <<ev_pc, ev_data, ev_walk, activation_df, activation_status_map, ev_results>>

sdVars == <<sd_pc, sd_costs, sd_out>>

rvVars == <<rv_pc, rv_data, rv_walk, rv_activation, detail_results>>

hsVars == <<hs_max_history, hs_now, hs_history, hs_files, hs_saved>>

vars == <<rpVars, selVars, actVars, effVars, wapVars, mpVars, ppVars, evVars, sdVars, rvVars, hsVars>>

\* what each component leaves alone
notRound == <<selVars, actVars, effVars, wapVars, mpVars, ppVars, evVars, sdVars, rvVars, hsVars>>

notSelect == <<rpVars, actVars, effVars, wapVars, mpVars, ppVars, evVars, sdVars, rvVars, hsVars>>

notActivation == <<rpVars, selVars, effVars, wapVars, mpVars, ppVars, evVars, sdVars, rvVars, hsVars>>

notEffect == <<rpVars, selVars, actVars, wapVars, mpVars, ppVars, evVars, sdVars, rvVars, hsVars>>

notWap == <<rpVars, selVars, actVars, effVars, mpVars, ppVars, evVars, sdVars, rvVars, hsVars>>

notProducts == <<rpVars, selVars, actVars, effVars, wapVars, ppVars, evVars, sdVars, rvVars, hsVars>>

notPreprocess == <<rpVars, selVars, actVars, effVars, wapVars, mpVars, evVars, sdVars, rvVars, hsVars>>

notEvidence == <<rpVars, selVars, actVars, effVars, wapVars, mpVars, ppVars, sdVars, rvVars, hsVars>>

notStockDays == <<rpVars, selVars, actVars, effVars, wapVars, mpVars, ppVars, evVars, rvVars, hsVars>>

notRevaluation == <<rpVars, selVars, actVars, effVars, wapVars, mpVars, ppVars, evVars, sdVars, hsVars>>

notHistory == <<rpVars, selVars, actVars, effVars, wapVars, mpVars, ppVars, evVars, sdVars, rvVars>>

---------------------------------------------------------------------------
(* Generic helpers *)

None == <<>>

Some(v) == <<v>>

IsNone(x) == x = None

Val(x) == x[1]

Abs(x) == IF x < 0 THEN -x ELSE x

Max(a, b) == IF a >= b THEN a ELSE b

Min(a, b) == IF a <= b THEN a ELSE b

RECURSIVE Gcd(_, _)
Gcd(a, b) == IF b = 0 THEN a ELSE Gcd(b, a % b)

\* the fraction n/d (d > 0) in lowest terms, as <<numerator, denominator>>
Frac(n, d) == LET g == Gcd(Abs(n), d) IN <<n \div g, d \div g>>

\* x <= k and x > k for a fraction x >= 0 and an integer k
FracLeq(x, k) == x[1] <= k * x[2]

\* Rational arithmetic for the revenue and profit figures.  Undefined is what a
\* division by zero leaves (inf, nan or an exception); it propagates.
Undefined == <<0, 0>>

Q(n) == <<n, 1>>

Ratio(n, d) ==
    IF d = 0 THEN Undefined
    ELSE IF d < 0 THEN Frac(-n, -d) ELSE Frac(n, d)

QAdd(a, b) == Ratio(a[1] * b[2] + b[1] * a[2], a[2] * b[2])

QSub(a, b) == Ratio(a[1] * b[2] - b[1] * a[2], a[2] * b[2])

QMul(a, b) == Ratio(a[1] * b[1], a[2] * b[2])

QDiv(a, b) == Ratio(a[1] * b[2], a[2] * b[1])

QLess(a, b) == a[1] * b[2] < b[1] * a[2]

RECURSIVE SumSeq(_)
SumSeq(s) == IF Len(s) = 0 THEN 0 ELSE Head(s) + SumSeq(Tail(s))

RECURSIVE QSumSeq(_)
QSumSeq(s) == IF Len(s) = 0 THEN Q(0) ELSE QAdd(Head(s), QSumSeq(Tail(s)))

---------------------------------------------------------------------------
(* Bounds of the model *)

\* raw plan prices handed to round_price range over -1.00, 0.00 and 0.01 .. MaxRawPrice/100
MaxRawPrice == 250

\* the selector is asked for 1 .. MaxPreTestWeeks weeks
MaxPreTestWeeks == 3

\* at most MaxSpecialWeeks weeks of a product's stock history differ from its usual level
MaxSpecialWeeks == 2

\* the special weeks lie within Span weeks of the search end-week and of the two
\* lookback limits (26 and 52 weeks back)
Span == 2

\* the classifier walks at most MaxTestWeeks test weeks of a product
MaxTestWeeks == 3

\* the estimator reads at most MaxEffectWeeks weeks from the product's test start
MaxEffectWeeks == 2

\* a product has at most MaxOrders price-change orders
MaxOrders == 2

\* a week handed to the fact-price computation has at most MaxWeekSales transactions
MaxWeekSales == 2

\* the number of test products classified together
MaxProducts == 2

\* a product of specification SpecOrders has at most MaxSeveralOrders orders
MaxSeveralOrders == 3

\* the sales table handed to preprocess has at most MaxSales rows
MaxSales == 2

\* the cost table handed to preprocess has at most MaxCostRecords rows
MaxCostRecords == 2

---------------------------------------------------------------------------
(* round_price: src/calculator.py lines 285-317 *)

Directions == {"up", "down", "nearest"}

\* round_value arguments a caller may pass (the classifier clamps them to 0..99)
RoundValueInputs == {-5, 0, 1, 10, 49, 50, 51, 90, 99, 150}

\* The two comparisons of round_price whose operands are binary floating-point
\* numbers lying exactly on the border in decimal arithmetic: the tolerance test
\* abs(frac - target) < 0.01 when the fraction is one kopeck away from the target,
\* and the test abs(price - lower) <= abs(price - upper) when the price is halfway.
\* Either outcome occurs in CPython depending on the operands' rounding errors.
FpOutcomes == [tol : BOOLEAN, tie : BOOLEAN]

\* round_value = max(0, min(99, int(round_value)))
ClampRoundValue(rv) == Max(0, Min(99, rv))

\* abs(frac - target) < 0.01, frac and target in kopecks
WithinTolerance(frac, target, fp) ==
    \/ frac = target
    \/ Abs(frac - target) = 1 /\ fp.tol

\* abs(price - lower) <= abs(price - upper)
LowerIsCloser(price, lower, upper, fp) ==
    \/ Abs(price - lower) < Abs(price - upper)
    \/ Abs(price - lower) = Abs(price - upper) /\ fp.tie

round_price(price, round_value, round_direction, fp) ==
    IF IsNone(price) \/ Val(price) <= 0 THEN None
    ELSE LET p      == Val(price)
             whole  == p \div 100
             frac   == p % 100
             target == round_value
         IN  IF frac = 0 THEN Some(whole * 100)
             ELSE IF WithinTolerance(frac, target, fp) THEN price
             ELSE IF round_direction = "nearest"
                  THEN LET lower == whole * 100 + target
                           upper == (whole + 1) * 100 + target
                       IN  IF LowerIsCloser(p, lower, upper, fp)
                           THEN Some(lower) ELSE Some(upper)
             ELSE IF round_direction = "down"
                  THEN IF frac >= target
                       THEN Some(whole * 100 + target)
                       ELSE Some((whole - 1) * 100 + target)
             ELSE IF frac <= target
                  THEN Some(whole * 100 + target)
                  ELSE Some((whole + 1) * 100 + target)

\* lines 958-976: plan_price_current of get_weekly_details with use_rounding, for the
\* raw price of the current order (in kopecks) and round_value as passed in params;
\* a price that is not positive is passed on as it is
WeeklyPlanPrice(raw_price, round_value, round_direction, fp) ==
    IF raw_price <= 0 THEN Some(raw_price)
    ELSE LET whole  == raw_price \div 100
             frac   == raw_price % 100
             target == round_value
         IN  IF WithinTolerance(frac, target, fp) THEN Some(raw_price)
             ELSE IF round_direction = "nearest"
                  THEN LET lower == whole * 100 + target
                           upper == (whole + 1) * 100 + target
                       IN  IF LowerIsCloser(raw_price, lower, upper, fp)
                           THEN Some(lower) ELSE Some(upper)
             ELSE IF round_direction = "down"
                  THEN IF frac >= target
                       THEN Some(whole * 100 + target)
                       ELSE Some((whole - 1) * 100 + target)
             ELSE IF frac <= target
                  THEN Some(whole * 100 + target)
                  ELSE Some((whole + 1) * 100 + target)

---------------------------------------------------------------------------
(* Specification SpecRound: round_price applied once and twice to one price, *)
(* and the plan price of get_weekly_details for the same price               *)

RawPrices == {-100, 0} \cup (1 .. MaxRawPrice)

RoundIdle ==
    /\ rp_pc = "idle"
    /\ rp_price = None
    /\ rp_round_value = 0
    /\ rp_direction = "up"
    /\ rp_fp = [tol |-> FALSE, tie |-> FALSE]
    /\ rp_once = None
    /\ rp_twice = None
    /\ rp_weekly = None

RoundInit ==
    /\ rp_pc = "start"
    /\ rp_price \in {Some(p) : p \in RawPrices}
    /\ rp_round_value \in RoundValueInputs
    /\ rp_direction \in Directions
    /\ rp_fp \in FpOutcomes
    /\ rp_once = None
    /\ rp_twice = None
    /\ rp_weekly = None

RoundOnce ==
    /\ rp_pc = "start"
    /\ rp_once' = round_price(rp_price, ClampRoundValue(rp_round_value), rp_direction, rp_fp)
    /\ rp_pc' = "once"
    /\ UNCHANGED <<rp_price, rp_round_value, rp_direction, rp_fp, rp_twice, rp_weekly, notRound>>

RoundTwice ==
    /\ rp_pc = "once"
    /\ rp_twice' = round_price(rp_once, ClampRoundValue(rp_round_value), rp_direction, rp_fp)
    /\ rp_pc' = "twice"
    /\ UNCHANGED <<rp_price, rp_round_value, rp_direction, rp_fp, rp_once, rp_weekly, notRound>>

\* get_weekly_details with use_rounding on a week whose current order has the raw price
\* (lines 955-978)
WeeklyDetails ==
    /\ rp_pc # "idle"
    /\ IsNone(rp_weekly)
    /\ rp_weekly' = Some(WeeklyPlanPrice(Val(rp_price), rp_round_value, rp_direction, rp_fp))
    /\ UNCHANGED <<rp_pc, rp_price, rp_round_value, rp_direction, rp_fp, rp_once, rp_twice,
                   notRound>>

RoundNext == RoundOnce \/ RoundTwice \/ WeeklyDetails

---------------------------------------------------------------------------
(* find_valid_pre_test_period: src/calculator.py lines 120-155 *)

max_lookback == 26

\* self.stock_days_lookup.get((pid, w), 0)
LookupGet(lookup, w) == IF w \in DOMAIN lookup THEN lookup[w] ELSE 0

\* a strict threshold: a week exactly at the threshold is refused
HasEnoughStockStrict(lookup, w, thr) == LookupGet(lookup, w) * 100 > 7 * thr

\* not (stock_days < 7 * (threshold_pct / 100.0))
HasEnoughStock(lookup, w, thr) == ~ (LookupGet(lookup, w) * 100 < 7 * thr)

\* pd.date_range(start=current_start_week, end=current_end_week, freq='W-MON')
WeekRange(first, last) == [k \in 1 .. Max(0, last - first + 1) |-> first + k - 1]

\* sorted(valid_weeks)
RECURSIVE Sorted(_)
Sorted(s) ==
    IF Len(s) = 0 THEN <<>>
    ELSE LET m == CHOOSE i \in 1 .. Len(s) : \A j \in 1 .. Len(s) : s[i] <= s[j]
             rest == [k \in 1 .. Len(s) - 1 |-> IF k < m THEN s[k] ELSE s[k + 1]]
         IN  <<s[m]>> \o Sorted(rest)

\* the loop of lines 126-140, from its iteration i on
RECURSIVE ContiguousSearch(_, _, _, _, _)
ContiguousSearch(lookup, current_end_week, n, thr, i) ==
    IF i >= max_lookback THEN None
    ELSE LET current_start_week == current_end_week - (n - 1)
             window_weeks == WeekRange(current_start_week, current_end_week)
             is_valid_window == \A k \in 1 .. Len(window_weeks) :
                                    HasEnoughStock(lookup, window_weeks[k], thr)
         IN  IF is_valid_window THEN Some(window_weeks)
             ELSE ContiguousSearch(lookup, current_end_week - 1, n, thr, i + 1)

\* the scattered loop bounded by max_lookback instead of max_lookback * 2
RECURSIVE ScatteredSearchShort(_, _, _, _, _, _)
ScatteredSearchShort(lookup, current_week, n, thr, i, valid_weeks) ==
    IF i >= max_lookback THEN None
    ELSE LET collected == IF HasEnoughStock(lookup, current_week, thr)
                          THEN Append(valid_weeks, current_week)
                          ELSE valid_weeks
         IN  IF Len(collected) = n THEN Some(Sorted(collected))
             ELSE ScatteredSearchShort(lookup, current_week - 1, n, thr, i + 1, collected)

\* the loop of lines 145-153, from its iteration i on
RECURSIVE ScatteredSearch(_, _, _, _, _, _)
ScatteredSearch(lookup, current_week, n, thr, i, valid_weeks) ==
    IF i >= max_lookback * 2 THEN None
    ELSE LET collected == IF HasEnoughStock(lookup, current_week, thr)
                          THEN Append(valid_weeks, current_week)
                          ELSE valid_weeks
         IN  IF Len(collected) = n THEN Some(Sorted(collected))
             ELSE ScatteredSearch(lookup, current_week - 1, n, thr, i + 1, collected)

find_valid_pre_test_period(lookup, search_week, n, thr, contig) ==
    IF contig
    THEN ContiguousSearch(lookup, search_week, n, thr, 0)
    ELSE ScatteredSearch(lookup, search_week, n, thr, 0, <<>>)

---------------------------------------------------------------------------
(* Specification SpecSelect: the selector applied to one stock history *)

\* <<usual stock days, stock days of a special week, threshold>>
StockCases == {<<0, 7, 80>>, <<7, 0, 80>>, <<7, 5, 80>>, <<0, 6, 80>>,
               <<7, 6, 100>>, <<0, 7, 100>>}

\* weeks back from the search end-week at which a special week may lie
SpecialOffsets ==
    (0 .. Span)
    \cup ((max_lookback - Span) .. (max_lookback + Span))
    \cup ((2 * max_lookback - Span) .. (2 * max_lookback + Span))

SearchEnds == {0, 3}

\* the weeks the cost history of the product covers
HistoryWeeks(search_week) ==
    (search_week - 2 * max_lookback - Span - MaxPreTestWeeks) .. search_week

\* a stock history: the usual level in every covered week (no record at all when
\* the usual level is 0), the special level in the special weeks
StockHistory(search_week, usual, special, offs) ==
    LET covered == IF usual = 0 THEN {search_week - o : o \in offs}
                   ELSE HistoryWeeks(search_week)
    IN  [w \in covered |-> IF (search_week - w) \in offs THEN special ELSE usual]

SelectIdle ==
    /\ sel_pc = "idle"
    /\ stock_days_lookup = <<>>
    /\ start_search_week = 0
    /\ n_weeks = 1
    /\ threshold_pct = 0
    /\ contiguous = TRUE
    /\ sel_result = None

SelectInit ==
    /\ sel_pc = "start"
    /\ start_search_week \in SearchEnds
    /\ \E c \in StockCases, offs \in SUBSET SpecialOffsets :
          /\ Cardinality(offs) <= MaxSpecialWeeks
          /\ threshold_pct = c[3]
          /\ stock_days_lookup = StockHistory(start_search_week, c[1], c[2], offs)
    /\ n_weeks \in 1 .. MaxPreTestWeeks
    /\ contiguous \in BOOLEAN
    /\ sel_result = None

Select ==
    /\ sel_pc = "start"
    /\ sel_result' = find_valid_pre_test_period(stock_days_lookup, start_search_week,
                                                n_weeks, threshold_pct, contiguous)
    /\ sel_pc' = "done"
    /\ UNCHANGED <<stock_days_lookup, start_search_week, n_weeks, threshold_pct, contiguous,
                   notSelect>>

SelectNext == Select

---------------------------------------------------------------------------
(* get_activation_details: src/calculator.py lines 251-644.                *)
(* A date is a day number; day 0 is the Monday of the product's first test *)
(* week, so week k covers the days 7k .. 7k+6.  An order of product_prices *)
(* is kept with the week of its New_Price_Start; the day within that week  *)
(* is read only in the week the order takes effect (price_change_date).    *)

\* week_end = w + pd.Timedelta(days=6)
WeekEnd(wk) == 7 * wk + 6

\* abs(x - ref) / ref * 100 <= pct, for a fraction x and a price ref > 0
WithinPct(x, ref, pct) ==
    Abs(x[1] - ref * x[2]) * 100 <= pct * ref * x[2]

\* abs(fact_price - prev_fact_price) / prev_fact_price * 100, prev_fact_price > 0
PctChange(fact, prev) ==
    Frac(100 * Abs(fact[1] * prev[2] - prev[1] * fact[2]), prev[1] * fact[2])

\* product_prices[product_prices['New_Price_Start'] <= week_end]
ActivePriceRows(orders, wk) ==
    SelectSeq(orders, LAMBDA o : 7 * o.start_week <= WeekEnd(wk))

\* the rows of product_prices whose week is w (lines 361-376)
ChangeRows(orders, wk) ==
    SelectSeq(orders, LAMBDA o : o.start_week = wk)

\* revenue and quantity of a set of transactions
RECURSIVE Revenue(_)
Revenue(txs) ==
    IF Len(txs) = 0 THEN 0
    ELSE Head(txs).price * Head(txs).quantity + Revenue(Tail(txs))

RECURSIVE Quantity(_)
Quantity(txs) ==
    IF Len(txs) = 0 THEN 0 ELSE Head(txs).quantity + Quantity(Tail(txs))

\* the whole-week price of lines 404-415, 437-448 and 451-462, from the row of
\* weekly_sales: <<fact_price, has_sales>>
WholeWeekPrice(txs) ==
    IF Len(txs) = 0 \/ Quantity(txs) = 0
    THEN <<Frac(0, 1), FALSE>>
    ELSE <<Frac(Revenue(txs), Quantity(txs)), TRUE>>

\* lines 388-393: the date of the first transaction on or after the change date
\* priced within threshold_pct of the current plan price
RECURSIVE FirstOccurrence(_, _, _)
FirstOccurrence(from_plan, plan, pct) ==
    IF Len(from_plan) = 0 THEN None
    ELSE IF WithinPct(<<Head(from_plan).price, 1>>, plan, pct)
         THEN Some(Head(from_plan).recorded_on)
         ELSE FirstOccurrence(Tail(from_plan), plan, pct)

\* the days from the first occurrence to the week end, the first day left out
DaysWorkingExclusive(week_end, first_occurrence_date) ==
    week_end - first_occurrence_date

\* line 398: (week_end - first_occurrence_date).days + 1
DaysWorking(week_end, first_occurrence_date) ==
    (week_end - first_occurrence_date) + 1

\* lines 379-462: <<fact_price, has_sales, first_occurrence_date>>
FactPrice(prm, txs, wk, plan_price_current, price_change_date) ==
    IF prm.wap_from_change_date /\ ~ IsNone(price_change_date)
    THEN LET week_sales_from_plan ==
                 SelectSeq(txs, LAMBDA t : t.recorded_on >= Val(price_change_date))
             found ==
                 IF Len(week_sales_from_plan) > 0 /\ Val(plan_price_current) > 0
                 THEN FirstOccurrence(week_sales_from_plan, Val(plan_price_current),
                                      prm.threshold_pct)
                 ELSE None
         IN  IF IsNone(found) THEN WholeWeekPrice(txs) \o <<None>>
             ELSE LET days_working == DaysWorking(WeekEnd(wk), Val(found))
                  IN  IF days_working < prm.min_days_threshold
                      THEN WholeWeekPrice(txs) \o <<None>>
                      ELSE LET week_sales ==
                                   SelectSeq(txs, LAMBDA t : t.recorded_on >= Val(found))
                           IN  IF Len(week_sales) > 0 /\ Quantity(week_sales) > 0
                               THEN <<Frac(Revenue(week_sales), Quantity(week_sales)),
                                      TRUE, found>>
                               ELSE <<Frac(0, 1), FALSE, found>>
    ELSE WholeWeekPrice(txs) \o <<None>>

\* lines 348-358: the plan price compared with the fact price
ProcessedPrice(prm, raw) ==
    IF prm.use_rounding
    THEN round_price(raw, ClampRoundValue(prm.round_value), prm.round_direction, prm.fp)
    ELSE raw

\* lines 351 and 357
UnusedPrice(prm, raw) ==
    IF prm.use_rounding
    THEN raw
    ELSE round_price(raw, ClampRoundValue(prm.round_value), prm.round_direction, prm.fp)

\* prev_price is not None and prev_price > 0 and within threshold_pct of it
MatchesPlan(fact, plan, pct) ==
    /\ ~ IsNone(plan)
    /\ Val(plan) > 0
    /\ WithinPct(fact, Val(plan), pct)

\* the variant of the search that looks at the plan price before the current one only
MatchingBeforeCurrent(fact, all_processed, pct) ==
    {k \in 1 .. Len(all_processed) - 1 :
        k = Len(all_processed) - 1 /\ MatchesPlan(fact, all_processed[k], pct)}

\* lines 483-487 and 549-553: the positions of all_plan_prices_processed[:-1]
\* that the fact price matches
MatchingPrevious(fact, all_processed, pct) ==
    {k \in 1 .. Len(all_processed) - 1 : MatchesPlan(fact, all_processed[k], pct)}

\* a first-period test that takes only an unchanged price for the same price
SamePriceFirstExact(change_from_prev_pct) ==
    ~ IsNone(change_from_prev_pct) /\ FracLeq(Val(change_from_prev_pct), 0)

\* line 503: change_from_prev_pct is not None and change_from_prev_pct <= 1.0
SamePriceFirst(change_from_prev_pct) ==
    ~ IsNone(change_from_prev_pct) /\ FracLeq(Val(change_from_prev_pct), 1)

\* a test that takes every price for ours
IsOurPriceAlways(is_match_current, is_match_any_previous, is_match_last_applied) ==
    TRUE

\* line 498
IsOurPrice(is_match_current, is_match_any_previous, is_match_last_applied) ==
    is_match_current \/ is_match_any_previous \/ is_match_last_applied

\* lines 518-541 and 554-560
\* the variant of the search that keeps the last matching earlier price
LastMatching(matching_previous) ==
    CHOOSE k \in matching_previous : \A j \in matching_previous : j <= k

\* lines 547-553: the loop over all_plan_prices_processed[:-1] stops at the first
\* price that matches
FirstMatching(matching_previous) ==
    CHOOSE k \in matching_previous : \A j \in matching_previous : k <= j

\* the variant in which the first period never ends
FirstPeriodKept(first_period, is_price_change_week) == first_period

\* lines 639-642: after a price-change week the product is out of its first period
FirstPeriodAfter(first_period, is_price_change_week) ==
    IF is_price_change_week THEN FALSE ELSE first_period

\* the variant of the release in which any week with sales releases the lock
LockReleasedBySales(blocked, has_sales, change_from_prev_pct) ==
    blocked /\ has_sales

\* lines 510-513: a set lock is released by a week with sales whose price differs
\* from the previous fact price by more than 1%
LockReleased(blocked, has_sales, change_from_prev_pct) ==
    /\ blocked
    /\ has_sales
    /\ ~ IsNone(change_from_prev_pct)
    /\ ~ FracLeq(Val(change_from_prev_pct), 1)

\* the variant of the status rule in which a week without sales is never confirmed
StatusOfNoSalesMismatched(has_sales, is_our_price, is_match_current, is_match_any_previous, is_match_last_applied, coincidence, last_known) ==
    IF has_sales
    THEN IF is_our_price
         THEN IF is_match_current THEN <<"ConfirmedCurrent", TRUE>>
              ELSE IF is_match_any_previous \/ is_match_last_applied
                   THEN <<"ConfirmedPrevious", TRUE>>
                   ELSE <<"OK", TRUE>>
         ELSE IF coincidence THEN <<"MismatchedCoincidence", FALSE>>
              ELSE <<"MismatchedOffPlan", FALSE>>
    ELSE <<"MismatchedNoSales", FALSE>>

StatusOf(has_sales, is_our_price, is_match_current, is_match_any_previous, is_match_last_applied, coincidence, last_known) ==
    IF has_sales
    THEN IF is_our_price
         THEN IF is_match_current THEN <<"ConfirmedCurrent", TRUE>>
              ELSE IF is_match_any_previous \/ is_match_last_applied
                   THEN <<"ConfirmedPrevious", TRUE>>
                   ELSE <<"OK", TRUE>>
         ELSE IF coincidence THEN <<"MismatchedCoincidence", FALSE>>
              ELSE <<"MismatchedOffPlan", FALSE>>
    ELSE IF last_known THEN <<"ConfirmedNoSales", TRUE>>
         ELSE <<"MismatchedNoSales", FALSE>>

\* One iteration of the loop over test_weeks (lines 331-642) for week wk, the
\* product's orders known by then and the week's transactions.  st is the running
\* state.  The result says whether the iteration was skipped (line 335), raised, or
\* which row it appended and the running state it left.
ProcessWeek(prm, orders, change_day, txs, wk, st) ==
    LET active_price_rows == ActivePriceRows(orders, wk)
    IN
    IF Len(active_price_rows) = 0
    THEN [skipped |-> TRUE, raised |-> FALSE, row |-> None, st |-> st]
    ELSE
    LET n == Len(active_price_rows)
        plan_price_current_raw == Some(active_price_rows[n].New_Price)
        all_plan_prices_raw == [k \in 1 .. n |-> Some(active_price_rows[k].New_Price)]
        plan_price_previous_raw ==
            IF n >= 2 THEN Some(active_price_rows[n - 1].New_Price) ELSE None
        plan_price_current == ProcessedPrice(prm, plan_price_current_raw)
        plan_price_previous ==
            IF IsNone(plan_price_previous_raw) THEN None
            ELSE ProcessedPrice(prm, plan_price_previous_raw)
        plan_price_unused == UnusedPrice(prm, plan_price_current_raw)
        all_plan_prices_processed ==
            [k \in 1 .. n |-> ProcessedPrice(prm, all_plan_prices_raw[k])]
        change_rows == ChangeRows(orders, wk)
        is_price_change_week == Len(change_rows) > 0
        price_change_date ==
            IF is_price_change_week THEN Some(7 * wk + change_day) ELSE None
        \* plan_price_current > 0 is evaluated at line 389 when the week has a
        \* transaction on or after the change date, and at line 476 when has_sales
        from_plan_nonempty ==
            /\ prm.wap_from_change_date
            /\ is_price_change_week
            /\ \E k \in 1 .. Len(txs) : txs[k].recorded_on >= Val(price_change_date)
        raises_early == IsNone(plan_price_current) /\ from_plan_nonempty
        fp3 == IF raises_early THEN <<Frac(0, 1), FALSE, None>>
               ELSE FactPrice(prm, txs, wk, plan_price_current, price_change_date)
        fact_price == fp3[1]
        has_sales == fp3[2]
        first_occurrence_date == fp3[3]
        raises == raises_early \/ (IsNone(plan_price_current) /\ has_sales)
    IN
    IF raises
    THEN [skipped |-> FALSE, raised |-> TRUE, row |-> None, st |-> st]
    ELSE
    LET pct == prm.threshold_pct
        is_match_current == has_sales /\ MatchesPlan(fact_price, plan_price_current, pct)
        matching_previous == MatchingPrevious(fact_price, all_plan_prices_processed, pct)
        is_match_any_previous ==
            ~ st.is_first_period /\ has_sales /\ n > 1 /\ matching_previous # {}
        is_match_last_applied ==
            has_sales /\ MatchesPlan(fact_price, st.last_applied_plan_price, pct)
        has_prev == has_sales /\ ~ IsNone(st.prev_fact_price) /\ st.prev_fact_price[1] > 0
        change_from_prev_pct ==
            IF has_prev THEN Some(PctChange(fact_price, st.prev_fact_price)) ELSE None
        our0 == IsOurPrice(is_match_current, is_match_any_previous, is_match_last_applied)
        \* lines 500-507
        same_price_first ==
            st.is_first_period /\ has_prev /\ SamePriceFirst(change_from_prev_pct)
        blocked1 == st.blocked_same_price \/ same_price_first
        \* lines 509-516
        released == LockReleased(blocked1, has_sales, change_from_prev_pct)
        held == blocked1 /\ has_sales /\ ~ IsNone(change_from_prev_pct)
                /\ FracLeq(Val(change_from_prev_pct), 1)
        blocked2 == IF released THEN FALSE ELSE blocked1
        is_our_price == our0 /\ ~ same_price_first /\ ~ held
        coincidence == same_price_first \/ held
        sc == StatusOf(has_sales, is_our_price, is_match_current, is_match_any_previous,
                       is_match_last_applied, coincidence, st.last_known_is_our_price)
        \* lines 543-553
        new_last_applied ==
            IF has_sales /\ is_our_price /\ ~ blocked2
            THEN IF is_match_current THEN plan_price_current
                 ELSE IF is_match_any_previous
                      THEN all_plan_prices_processed[FirstMatching(matching_previous)]
                      ELSE st.last_applied_plan_price
            ELSE st.last_applied_plan_price
        row == [week_start            |-> wk,
                Plan_Price_Current    |-> plan_price_current,
                Plan_Price_Previous   |-> IF st.is_first_period THEN None
                                          ELSE plan_price_previous,
                Plan_Price_Unused     |-> plan_price_unused,
                Fact_Price            |-> fact_price,
                Status                |-> sc[1],
                Can_Use_In_Analysis   |-> sc[2],
                Is_Price_Change_Week  |-> is_price_change_week,
                Is_First_Period       |-> st.is_first_period,
                has_sales             |-> has_sales,
                first_occurrence_date |-> first_occurrence_date]
    IN  [skipped |-> FALSE,
         raised  |-> FALSE,
         row     |-> Some(row),
         st      |-> [last_known_is_our_price |->
                          IF has_sales THEN is_our_price ELSE st.last_known_is_our_price,
                      is_first_period |->
                          FirstPeriodAfter(st.is_first_period, is_price_change_week),
                      blocked_same_price |-> blocked2,
                      last_applied_plan_price |-> new_last_applied,
                      prev_fact_price |->
                          IF has_sales THEN fact_price ELSE st.prev_fact_price]]

---------------------------------------------------------------------------
(* Specification Spec: the classifier walking the test weeks of one product *)

\* raw planned prices (New_Price): a whole price, a price with kopecks, a price more
\* than 5% above both, and a degenerate price
PlanPrices == {0, 10000, 10050, 11000}

\* unit prices of the transactions
SalePrices == {10000, 10085, 11000}

\* week days on which an order takes effect: Monday, Thursday
OrderDays == {0, 3}

\* the arguments of get_activation_details
ActivationParams ==
    {[threshold_pct |-> t, use_rounding |-> r[1], round_value |-> 90,
      round_direction |-> r[2], wap_from_change_date |-> s, min_days_threshold |-> 3,
      fp |-> [tol |-> FALSE, tie |-> FALSE]] :
        t \in {1, 5},
        r \in {<<FALSE, "up">>, <<TRUE, "up">>, <<TRUE, "down">>, <<TRUE, "nearest">>},
        s \in BOOLEAN}

\* the last fact price before the test period (lines 319-329): no pre-test sales,
\* or the price of the latest pre-test week with sales
PreTestFactPrices == {None, Frac(10000, 1)}

\* the orders of the product that take effect in week wk, by date
OrdersInWeek(wk) ==
    {<<>>} \cup {<<[start_week |-> wk, New_Price |-> p]>> : p \in PlanPrices}

\* the transactions of the product in week wk, by date
SalesInWeek(wk) ==
    LET tx(d, p, q) == [recorded_on |-> 7 * wk + d, price |-> p, quantity |-> q]
        one == {<<tx(3, p, 1)>> : p \in SalePrices}
        two == {<<tx(d[1], pq[1], 1), tx(d[2], pq[2], 1)>> :
                    d \in {<<0, 3>>, <<3, 5>>},
                    pq \in {x \in SalePrices \X SalePrices : x[1] # x[2]}}
    IN  {<<>>, <<tx(0, 10000, 0)>>} \cup one \cup two

RunningState ==
    [last_known_is_our_price |-> last_known_is_our_price,
     is_first_period         |-> is_first_period,
     blocked_same_price      |-> blocked_same_price,
     last_applied_plan_price |-> last_applied_plan_price,
     prev_fact_price         |-> prev_fact_price]

\* lines 281-284 and 319-329
ActivationInit ==
    /\ act_pc = "walk"
    /\ params \in ActivationParams
    /\ product_prices = <<>>
    /\ test_week = 0
    /\ last_known_is_our_price = FALSE
    /\ is_first_period = TRUE
    /\ blocked_same_price = FALSE
    /\ last_applied_plan_price = None
    /\ pre_test_fact_price \in PreTestFactPrices
    /\ prev_fact_price = pre_test_fact_price
    /\ activation_weeks = <<>>
    /\ last_row = None

\* lines 331-642: one iteration of "for w in test_weeks", for a week whose new
\* orders, first change day and sales are drawn from the given sets
WalkOneWeek(orders_in_week, sales_in_week, order_days, max_orders) ==
    /\ act_pc = "walk"
    /\ test_week < MaxTestWeeks
    /\ \E new_orders \in orders_in_week, txs \in sales_in_week, change_day \in order_days :
          /\ Len(product_prices) + Len(new_orders) <= max_orders
          /\ (test_week = 0 => Len(new_orders) >= 1)
          /\ (Len(new_orders) = 0 => change_day = 0)
          /\ \E out \in {ProcessWeek(params, product_prices \o new_orders, change_day,
                                       txs, test_week, RunningState)} :
                 /\ product_prices' = product_prices \o new_orders
                 /\ IF out.raised
                    THEN /\ act_pc' = "raised"
                         /\ UNCHANGED <<test_week, last_known_is_our_price, is_first_period,
                                        blocked_same_price, last_applied_plan_price,
                                        prev_fact_price, activation_weeks, last_row>>
                    ELSE /\ act_pc' = "walk"
                         /\ test_week' = test_week + 1
                         /\ last_known_is_our_price' = out.st.last_known_is_our_price
                         /\ is_first_period' = out.st.is_first_period
                         /\ blocked_same_price' = out.st.blocked_same_price
                         /\ last_applied_plan_price' = out.st.last_applied_plan_price
                         /\ prev_fact_price' = out.st.prev_fact_price
                         /\ IF out.skipped
                            THEN UNCHANGED <<activation_weeks, last_row>>
                            ELSE /\ activation_weeks' =
                                        Append(activation_weeks, Val(out.row).week_start)
                                 /\ last_row' = out.row
    /\ UNCHANGED <<params, pre_test_fact_price, notActivation>>

\* one iteration of "for w in test_weeks"
ClassifyWeek ==
    WalkOneWeek(OrdersInWeek(test_week), SalesInWeek(test_week), OrderDays, MaxOrders)

\* test_weeks is exhausted: w is past last_week, the last week of weekly_sales
FinishWalk ==
    /\ act_pc = "walk"
    /\ act_pc' = "done"
    /\ UNCHANGED <<params, pre_test_fact_price, product_prices, test_week, last_known_is_our_price, is_first_period,
                   blocked_same_price, last_applied_plan_price, prev_fact_price,
                   activation_weeks, last_row, notActivation>>

ActivationNext == ClassifyWeek \/ FinishWalk

---------------------------------------------------------------------------
(* Specification SpecOrders: the classifier on a product with several      *)
(* orders, two of them in one week included; no rounding, whole-week WAP.  *)

SeveralPlanPrices == {10000, 11000, 12000}

\* no order, one order, or two orders with different prices in the week
SeveralOrdersInWeek(wk) ==
    {<<>>}
    \cup {<<[start_week |-> wk, New_Price |-> p]>> : p \in SeveralPlanPrices}
    \cup {<<[start_week |-> wk, New_Price |-> pq[1]], [start_week |-> wk, New_Price |-> pq[2]]>> :
              pq \in {x \in SeveralPlanPrices \X SeveralPlanPrices : x[1] # x[2]}}

\* no sale, or one sale on the Thursday
SeveralSalesInWeek(wk) ==
    {<<>>} \cup {<<[recorded_on |-> 7 * wk + 3, price |-> p, quantity |-> 1]>> :
                     p \in {10000, 10050, 10500, 11000, 12000, 13000}}

OrdersInit ==
    /\ ActivationInit
    /\ ~ params.use_rounding
    /\ ~ params.wap_from_change_date

\* one iteration of "for w in test_weeks"
ClassifySeveral ==
    WalkOneWeek(SeveralOrdersInWeek(test_week), SeveralSalesInWeek(test_week), {0},
                MaxSeveralOrders)

OrdersNext == ClassifySeveral \/ FinishWalk

---------------------------------------------------------------------------
(* calculate: src/calculator.py lines 1398-1735, for one test product and  *)
(* the control group.  Weeks are counted from the Monday of the week of    *)
(* the product's first order (week 0).  A weekly aggregate is None when    *)
(* the dataset has no row for the week.                                    *)

\* a test of the status that rejects the mismatched weeks with sales only
IsNotOurPriceStatusWithSales(status) ==
    ~ IsNone(status) /\ Val(status) \in {"MismatchedCoincidence", "MismatchedOffPlan"}

\* activation_status.startswith('не та цена'), activation_status being "" when the
\* map has no entry for the week
IsNotOurPriceStatus(status) ==
    ~ IsNone(status)
    /\ Val(status) \in {"MismatchedCoincidence", "MismatchedOffPlan", "MismatchedNoSales"}

\* ['revenue'].sum() and ['cost_volume'].sum() of the product's row of a week
SalesRevenue(d) == IF IsNone(d.sales) THEN 0 ELSE Val(d.sales).revenue

SalesCostVolume(d) == IF IsNone(d.sales) THEN 0 ELSE Val(d.sales).cost_volume

\* ['control_revenue'].sum() and ['control_cost_volume'].sum() of the control row
ControlRevenue(d) == IF IsNone(d.control) THEN 0 ELSE Val(d.control).control_revenue

ControlCostVolume(d) ==
    IF IsNone(d.control) THEN 0 ELSE Val(d.control).control_cost_volume

\* a baseline guard that looks at the product's revenue only
ZeroBaselineTestOnly(r_tb, r_cb) == r_tb[1] = 0

\* line 1494: r_tb == 0 or r_cb == 0
ZeroBaseline(r_tb, r_cb) == r_tb[1] = 0 \/ r_cb[1] = 0

\* lines 1443-1495: the pre-test window and the baseline values, from the stock-days
\* lookup, the average stock lookup and the weekly rows of the pre-test weeks
ComputeBaselineOf(stock_days, stock, sales, control, n, thr, contig) ==
    LET pre_test_search_end == -1
        pre_test_weeks_list ==
            find_valid_pre_test_period(stock_days, pre_test_search_end, n, thr, contig)
    IN
    IF IsNone(pre_test_weeks_list)
    THEN [skip |-> "no_window", pre_test_weeks_list |-> None, valid_pre_weeks_count |-> 0,
          r_tb |-> None, p_tb |-> None, r_cb |-> None, p_cb |-> None,
          baseline_stock |-> None]
    ELSE
    LET weeks == Val(pre_test_weeks_list)
        pre_test_stocks == [k \in 1 .. Len(weeks) |-> LookupGet(stock, weeks[k])]
        baseline_stock == Ratio(SumSeq(pre_test_stocks), Len(weeks))
        in_lookup == SelectSeq(weeks, LAMBDA w : w \in DOMAIN sales)
        valid_pre_weeks_count == Len(in_lookup)
        at(w) == [sales |-> Some(sales[w]),
                  control |-> IF w \in DOMAIN control THEN Some(control[w]) ELSE None]
        r_tb_sum == SumSeq([k \in 1 .. Len(in_lookup) |-> SalesRevenue(at(in_lookup[k]))])
        p_tb_sum == SumSeq([k \in 1 .. Len(in_lookup) |->
                               SalesRevenue(at(in_lookup[k]))
                                   - SalesCostVolume(at(in_lookup[k]))])
        r_cb_sum == SumSeq([k \in 1 .. Len(in_lookup) |->
                               ControlRevenue(at(in_lookup[k]))])
        p_cb_sum == SumSeq([k \in 1 .. Len(in_lookup) |->
                               ControlRevenue(at(in_lookup[k]))
                                   - ControlCostVolume(at(in_lookup[k]))])
    IN
    IF valid_pre_weeks_count = 0
    THEN [skip |-> "no_pre_test_sales", pre_test_weeks_list |-> pre_test_weeks_list,
          valid_pre_weeks_count |-> 0,
          r_tb |-> None, p_tb |-> None, r_cb |-> None, p_cb |-> None,
          baseline_stock |-> Some(baseline_stock)]
    ELSE
    LET r_tb == Ratio(r_tb_sum, valid_pre_weeks_count)
        p_tb == Ratio(p_tb_sum, valid_pre_weeks_count)
        r_cb == Ratio(r_cb_sum, valid_pre_weeks_count)
        p_cb == Ratio(p_cb_sum, valid_pre_weeks_count)
    IN  [skip |-> IF ZeroBaseline(r_tb, r_cb) THEN "zero_baseline" ELSE "",
         pre_test_weeks_list |-> pre_test_weeks_list,
         valid_pre_weeks_count |-> valid_pre_weeks_count,
         r_tb |-> Some(r_tb), p_tb |-> Some(p_tb), r_cb |-> Some(r_cb), p_cb |-> Some(p_cb),
         baseline_stock |-> Some(baseline_stock)]

\* lines 1503-1516: the entry of week_status_map for an available week
WeekStatus(prm, base, d) ==
    LET week_stock == IF IsNone(d.stock) THEN 0 ELSE Val(d.stock)
        threshold_factor == Ratio(100 - prm.stock_threshold_pct, 100)
    IN  [stock |-> week_stock,
         is_excluded |->
             prm.use_stock_filter
             /\ QLess(Q(week_stock), QMul(Val(base.baseline_stock), threshold_factor)),
         is_not_our_price |-> IsNotOurPriceStatus(d.status)]

\* the revenue effect of a week without test revenue, taken without the control uplift
RevenueEffectNoControl(r_tt, r_tb, r_ct, r_cb) ==
    IF r_tt[1] = 0
    THEN Q(-1)
    ELSE QSub(QSub(QDiv(r_tt, r_tb), Q(1)), QSub(QDiv(r_ct, r_cb), Q(1)))

\* lines 1620-1632
RevenueEffect(r_tt, r_tb, r_ct, r_cb) ==
    IF r_tt[1] = 0
    THEN LET term1 == Q(-1)
             term2 == IF r_ct[1] = 0 /\ r_cb[1] = 0 THEN Q(0)
                      ELSE IF r_cb[1] = 0 THEN Q(0)
                           ELSE QSub(QDiv(r_ct, r_cb), Q(1))
         IN  QSub(term1, term2)
    ELSE LET term1 == QSub(QDiv(r_tt, r_tb), Q(1))
             term2 == QSub(QDiv(r_ct, r_cb), Q(1))
         IN  QSub(term1, term2)

\* lines 1643-1654
ProfitEffect(p_tt, p_tb, p_ct, p_cb) ==
    IF p_tb[1] = 0 THEN Q(0)
    ELSE LET term1_p == QSub(QDiv(p_tt, p_tb), Q(1))
             term2_p == IF p_cb[1] = 0 THEN Q(0) ELSE QSub(QDiv(p_ct, p_cb), Q(1))
         IN  QSub(term1_p, term2_p)

\* an excluded row that carries no baseline
ExcludedRecordBlank(week, base, st) ==
    [week_start |-> week,
     R_tt |-> Q(0), R_tb |-> Q(0), R_ct |-> Q(0), R_cb |-> Q(0),
     Effect_Revenue_pct |-> Q(0), Effect_Profit_pct |-> Q(0),
     Fact_Revenue |-> Q(0), Product_Profit |-> Q(0),
     Abs_Effect_Revenue |-> Q(0), Abs_Effect_Profit |-> Q(0),
     Avg_Stock |-> st.stock, Is_Excluded |-> TRUE]

\* lines 1522-1545
ExcludedRecord(week, base, st) ==
    [week_start |-> week,
     R_tt |-> Q(0), R_tb |-> Val(base.r_tb), R_ct |-> Q(0), R_cb |-> Val(base.r_cb),
     Effect_Revenue_pct |-> Q(0), Effect_Profit_pct |-> Q(0),
     Fact_Revenue |-> Q(0), Product_Profit |-> Q(0),
     Abs_Effect_Revenue |-> Q(0), Abs_Effect_Profit |-> Q(0),
     Avg_Stock |-> st.stock, Is_Excluded |-> TRUE]

\* lines 1518-1698: the row appended for the week at position k of data (week
\* first + k - 1), or None when the week is not among available_weeks
EstimateWeekOf(prm, base, first, data, k) ==
    LET d == data[k]
        week == first + k - 1
    IN
    IF IsNone(d.control) THEN None
    ELSE
    LET current_status == WeekStatus(prm, base, d)
    IN
    IF current_status.is_excluded \/ current_status.is_not_our_price
    THEN Some(ExcludedRecord(week, base, current_status))
    ELSE
    LET \* lines 1547-1555: the weeks of the test period up to this one that are not
        \* marked in week_status_map (a week without a control row has no entry)
        valid_test_weeks ==
            SelectSeq([j \in 1 .. k |-> j],
                      LAMBDA j : \/ IsNone(data[j].control)
                                 \/ LET st == WeekStatus(prm, base, data[j])
                                    IN  ~ st.is_excluded /\ ~ st.is_not_our_price)
        nvalid == Len(valid_test_weeks)
        sum_over(f(_)) == SumSeq([j \in 1 .. nvalid |-> f(data[valid_test_weeks[j]])])
        any_sales == \E j \in 1 .. nvalid : ~ IsNone(data[valid_test_weeks[j]].sales)
        any_control == \E j \in 1 .. nvalid : ~ IsNone(data[valid_test_weeks[j]].control)
        profit(x) == SalesRevenue(x) - SalesCostVolume(x)
        control_profit_of(x) == ControlRevenue(x) - ControlCostVolume(x)
        r_tt == IF nvalid = 0 THEN Q(0)
                ELSE IF prm.test_use_week_values THEN Q(SalesRevenue(d))
                     ELSE Ratio(sum_over(SalesRevenue), nvalid)
        r_ct == IF nvalid = 0 THEN Q(0)
                ELSE IF prm.test_use_week_values THEN Q(ControlRevenue(d))
                     ELSE Ratio(sum_over(ControlRevenue), nvalid)
        p_tt == IF nvalid = 0 THEN Q(0)
                ELSE IF prm.test_use_week_values THEN Q(profit(d))
                     ELSE Ratio(IF any_sales THEN sum_over(profit) ELSE 0, nvalid)
        p_ct == IF nvalid = 0 THEN Q(0)
                ELSE IF prm.test_use_week_values THEN Q(control_profit_of(d))
                     ELSE Ratio(IF any_control THEN sum_over(control_profit_of) ELSE 0,
                                nvalid)
        effect_revenue == RevenueEffect(r_tt, Val(base.r_tb), r_ct, Val(base.r_cb))
        effect_profit == ProfitEffect(p_tt, Val(base.p_tb), p_ct, Val(base.p_cb))
        fact_revenue == Q(SalesRevenue(d))
        product_profit == Q(profit(d))
    IN  Some([week_start |-> week,
              R_tt |-> r_tt, R_tb |-> Val(base.r_tb), R_ct |-> r_ct, R_cb |-> Val(base.r_cb),
              Effect_Revenue_pct |-> effect_revenue, Effect_Profit_pct |-> effect_profit,
              Fact_Revenue |-> fact_revenue, Product_Profit |-> product_profit,
              Abs_Effect_Revenue |-> QMul(effect_revenue, fact_revenue),
              Abs_Effect_Profit |-> QMul(effect_profit, product_profit),
              Avg_Stock |-> current_status.stock, Is_Excluded |-> FALSE])

\* lines 1700-1735: <<Total_Effect_Revenue, Total_Effect_Profit>> of the product's
\* rows, None when results is empty
TotalsOf(prm, rows) ==
    IF Len(rows) = 0 THEN None
    ELSE
    LET valid_prod_data == SelectSeq(rows, LAMBDA r : ~ r.Is_Excluded)
        n == Len(valid_prod_data)
    IN  IF n = 0 THEN Some(<<Q(0), Q(0)>>)
        ELSE IF prm.test_use_week_values
        THEN Some(<<QSumSeq([k \in 1 .. n |-> valid_prod_data[k].Abs_Effect_Revenue]),
                    QSumSeq([k \in 1 .. n |-> valid_prod_data[k].Abs_Effect_Profit])>>)
        ELSE LET last_week_row == valid_prod_data[n]
                 total_revenue ==
                     QSumSeq([k \in 1 .. n |-> valid_prod_data[k].Fact_Revenue])
                 total_profit ==
                     QSumSeq([k \in 1 .. n |-> valid_prod_data[k].Product_Profit])
             IN  Some(<<QMul(last_week_row.Effect_Revenue_pct, total_revenue),
                        QMul(last_week_row.Effect_Profit_pct, total_profit)>>)

---------------------------------------------------------------------------
(* Specification SpecEffect: the estimator on one product *)

\* the arguments of calculate read in the loop over the weeks
EffectParams ==
    {[use_stock_filter |-> f, stock_threshold_pct |-> 50, test_use_week_values |-> m] :
        f \in BOOLEAN, m \in BOOLEAN}

\* the pre-test weeks the histories cover
PreWeeks == {-2, -1}

\* the product's weekly row of a pre-test week: revenue and cost volume
PreSalesRows ==
    {[revenue |-> 0, cost_volume |-> 0], [revenue |-> 1000, cost_volume |-> 600],
     [revenue |-> 1000, cost_volume |-> 1000]}

\* the control row of a pre-test week
PreControlRows ==
    {[control_revenue |-> 500, control_cost_volume |-> 300],
     [control_revenue |-> 500, control_cost_volume |-> 500]}

\* the rows of a dataset that has the same row for some of the pre-test weeks
PartialOn(rows) ==
    {[w \in ws |-> r] : ws \in SUBSET PreWeeks, r \in rows}

\* the aggregates of one week of the test period; the status is that of the
\* product's ActivationRecord of the week when there is one (there is none when
\* calculate is called without activation_threshold, and for the weeks after the
\* last week of weekly_sales)
TestWeekData(prm, prev_classified) ==
    {[control |-> c, sales |-> s, stock |-> k, status |-> st] :
        c \in {None, Some([control_revenue |-> 600, control_cost_volume |-> 300])},
        s \in {None, Some([revenue |-> 0, cost_volume |-> 0]),
               Some([revenue |-> 1200, cost_volume |-> 600])},
        k \in IF prm.use_stock_filter THEN {Some(4), Some(10)} ELSE {Some(10)},
        st \in {None} \cup
               (IF prev_classified
                THEN {Some("ConfirmedCurrent"), Some("MismatchedOffPlan"),
                      Some("ConfirmedNoSales"), Some("MismatchedNoSales")}
                ELSE {})}

\* a status is one the classifier gives to a week with these sales
StatusFitsSales(d) ==
    IF IsNone(d.status) THEN TRUE
    ELSE Val(d.status) \in {"ConfirmedCurrent", "MismatchedOffPlan"}
             <=> SalesRevenue(d) > 0

EffectIdle ==
    /\ eff_pc = "idle"
    /\ eff_params = None
    /\ test_period_start_week = 0
    /\ baseline = None
    /\ week_data = <<>>
    /\ results = <<>>
    /\ totals = None

\* lines 1406-1440; the first order falls on a Monday (week 0) or later in week 0
EffectInit ==
    /\ eff_pc = "start"
    /\ eff_params \in EffectParams
    /\ test_period_start_week \in {0, 1}
    /\ baseline = None
    /\ week_data = <<>>
    /\ results = <<>>
    /\ totals = None

\* lines 1411-1419: get_activation_details raises, and calculate with it
ActivationFails ==
    /\ eff_pc = "start"
    /\ eff_pc' = "raised"
    /\ UNCHANGED <<eff_params, test_period_start_week, baseline, week_data, results, totals,
                   notEffect>>

\* lines 1443-1495
ComputeBaseline ==
    /\ eff_pc = "start"
    /\ \E stock_days \in [PreWeeks -> {0, 7}],
          sales \in PartialOn(PreSalesRows), control \in PartialOn(PreControlRows),
          n \in 1 .. 2, contig \in BOOLEAN :
          \E base \in {ComputeBaselineOf(stock_days, [w \in PreWeeks |-> 10], sales,
                                         control, n, 80, contig)} :
              /\ baseline' = Some(base)
              /\ eff_pc' = IF base.skip = "" THEN "weeks" ELSE "skipped"
    /\ UNCHANGED <<eff_params, test_period_start_week, week_data, results, totals, notEffect>>

\* one iteration of "for week in available_weeks", or a week of the test period
\* without a control row, which is not among them
EstimateWeek ==
    /\ eff_pc = "weeks"
    /\ Len(week_data) < MaxEffectWeeks
    /\ \E d \in TestWeekData(eff_params,
                             IF Len(week_data) = 0 THEN TRUE
                             ELSE ~ IsNone(week_data[Len(week_data)].status)) :
          /\ StatusFitsSales(d)
          /\ week_data' = Append(week_data, d)
          /\ \E out \in {EstimateWeekOf(eff_params, Val(baseline), test_period_start_week,
                                        week_data', Len(week_data'))} :
                 results' = IF IsNone(out) THEN results ELSE Append(results, Val(out))
    /\ UNCHANGED <<eff_pc, eff_params, test_period_start_week, baseline, totals, notEffect>>

\* lines 1700-1735, after the last week of the data
FinishCalculate ==
    /\ eff_pc = "weeks"
    /\ totals' = TotalsOf(eff_params, results)
    /\ eff_pc' = "done"
    /\ UNCHANGED <<eff_params, test_period_start_week, baseline, week_data, results,
                   notEffect>>

EffectNext == ActivationFails \/ ComputeBaseline \/ EstimateWeek \/ FinishCalculate

---------------------------------------------------------------------------
(* Specification SpecWap: the fact price of one week (lines 378-462), for  *)
(* week 0 of a product, its current plan price, the date of the order that *)
(* takes effect in the week (None when there is none) and the week's       *)
(* transactions.                                                           *)

\* the arguments of get_activation_details read by the fact-price computation
WapParams ==
    {[threshold_pct |-> t, wap_from_change_date |-> s, min_days_threshold |-> 3] :
        t \in {1, 10}, s \in BOOLEAN}

\* days of the week with transactions: Monday, Thursday, Friday, Saturday
WapDays == {0, 3, 4, 5}

\* one transaction of the week
WapTransactions ==
    {[recorded_on |-> d, price |-> p, quantity |-> q] :
        d \in WapDays, p \in {10000, 11000}, q \in {0, 1, 3}}

\* self.sales of the product and week, sorted by recorded_on
WeekSales ==
    UNION {{s \in [1 .. n -> WapTransactions] :
               \A k \in 1 .. n - 1 : s[k].recorded_on <= s[k + 1].recorded_on} :
           n \in 0 .. MaxWeekSales}

WapIdle ==
    /\ wap_pc = "idle"
    /\ wap_in = None
    /\ wap_out = None

WapInit ==
    /\ wap_pc = "start"
    /\ wap_in \in {[prm |-> prm, plan_price_current |-> Some(p), price_change_date |-> c,
                    txs |-> txs] :
                      prm \in WapParams, p \in {0, 10000},
                      c \in {None} \cup {Some(d) : d \in WapDays}, txs \in WeekSales}
    /\ wap_out = None

\* lines 378-462
ComputeFactPrice ==
    /\ wap_pc = "start"
    /\ wap_out' = Some(FactPrice(wap_in.prm, wap_in.txs, 0, wap_in.plan_price_current,
                                 wap_in.price_change_date))
    /\ wap_pc' = "done"
    /\ UNCHANGED <<wap_in, notWap>>

WapNext == ComputeFactPrice

---------------------------------------------------------------------------
(* Specification SpecProducts: get_activation_details over several test    *)
(* products (lines 251-644), called for all of them and then for one.      *)

\* lines 281-284 and 319-329: the running state at the start of a product's walk
InitialRunningState(pre_test_price) ==
    [last_known_is_our_price |-> FALSE,
     is_first_period         |-> TRUE,
     blocked_same_price      |-> FALSE,
     last_applied_plan_price |-> None,
     prev_fact_price         |-> pre_test_price]

\* Python's truth value of specific_pid: None and 0 are false
Truthy(specific_pid) ==
    IF IsNone(specific_pid) THEN FALSE ELSE Val(specific_pid) # 0

\* line 254; ids_in_order is test_product_ids in the order the set iterates
TargetPids(specific_pid, ids_in_order) ==
    IF Truthy(specific_pid) THEN <<Val(specific_pid)>> ELSE ids_in_order

\* lines 256-329: the walk turns to the first of target_pids, if there is one
TurnTo(data, target_pids, activation_results) ==
    IF Len(target_pids) = 0
        THEN [target_pids |-> <<>>, week |-> 0, st |-> InitialRunningState(None),
              activation_results |-> activation_results]
    ELSE [target_pids |-> target_pids,
          week |-> data[Head(target_pids)].orders[1].start_week,
          st |-> InitialRunningState(data[Head(target_pids)].pre_test_fact_price),
          activation_results |-> activation_results]

\* the ids of the test products
ProductIds == 0 .. MaxProducts - 1

\* the last week of weekly_sales
ProductsLastWeek == 1

\* the arguments of the calls
ProductsParams ==
    [threshold_pct |-> 1, use_rounding |-> FALSE, round_value |-> 90,
     round_direction |-> "up", wap_from_change_date |-> FALSE, min_days_threshold |-> 3,
     fp |-> [tol |-> FALSE, tie |-> FALSE]]

\* one product: an order taking effect on the Monday of week 0 or 1, the same sales
\* (or none) every week, and its last pre-test fact price
ProductInputs ==
    {[orders |-> <<[start_week |-> w, New_Price |-> p]>>,
      sales |-> [k \in 0 .. ProductsLastWeek |-> s],
      pre_test_fact_price |-> pre] :
        w \in 0 .. ProductsLastWeek, p \in {10000, 11000},
        s \in {<<>>, <<[recorded_on |-> 0, price |-> 10000, quantity |-> 1]>>},
        pre \in PreTestFactPrices}

\* the sequences that hold every element of S once
Orderings(S) ==
    {s \in [1 .. Cardinality(S) -> S] : \A i, j \in 1 .. Cardinality(S) : s[i] = s[j] => i = j}

ProductsIdle ==
    /\ mp_pc = "idle"
    /\ mp_data = None
    /\ mp_order = <<>>
    /\ mp_pid = None
    /\ mp_call = None
    /\ mp_all = <<>>
    /\ mp_one = <<>>

ProductsInit ==
    /\ mp_pc = "start"
    /\ mp_data \in [ProductIds -> ProductInputs]
    /\ mp_order \in Orderings(ProductIds)
    /\ mp_pid = None
    /\ mp_call = None
    /\ mp_all = <<>>
    /\ mp_one = <<>>

\* get_activation_details(...) as calculate calls it, up to the first product
CallForAll ==
    /\ mp_pc = "start"
    /\ mp_call' = Some(TurnTo(mp_data, TargetPids(None, mp_order), <<>>))
    /\ mp_pc' = "all"
    /\ UNCHANGED <<mp_data, mp_order, mp_pid, mp_all, mp_one, notProducts>>

\* get_activation_details(specific_pid=pid, ...) on the same data
CallForOne ==
    /\ mp_pc = "returned"
    /\ \E pid \in ProductIds :
          /\ mp_pid' = Some(pid)
          /\ mp_call' = Some(TurnTo(mp_data, TargetPids(Some(pid), mp_order), <<>>))
    /\ mp_pc' = "one"
    /\ UNCHANGED <<mp_data, mp_order, mp_all, mp_one, notProducts>>

\* lines 331-642: one pass of the while loop for the product the walk is at, and
\* the turn to the next product after the last week (an exception is not caught
\* inside get_activation_details: the call ends without rows)
ProductWeek ==
    /\ mp_pc \in {"all", "one"}
    /\ Len(Val(mp_call).target_pids) > 0
    /\ LET call == Val(mp_call)
           product == mp_data[Head(call.target_pids)]
       IN  \E out \in {ProcessWeek(ProductsParams, product.orders, 0,
                                    product.sales[call.week], call.week, call.st)} :
             \E rows \in {IF out.raised \/ out.skipped THEN call.activation_results
                           ELSE Append(call.activation_results,
                                       [product_id |-> Head(call.target_pids),
                                        row |-> Val(out.row)])} :
               mp_call' = Some(IF out.raised THEN TurnTo(mp_data, <<>>, <<>>)
                               ELSE IF call.week < ProductsLastWeek
                                   THEN [call EXCEPT !.week = call.week + 1, !.st = out.st,
                                                     !.activation_results = rows]
                               ELSE TurnTo(mp_data, Tail(call.target_pids), rows))
    /\ UNCHANGED <<mp_pc, mp_data, mp_order, mp_pid, mp_all, mp_one, notProducts>>

\* line 644: the call returns activation_results
ReturnRows ==
    /\ mp_pc \in {"all", "one"}
    /\ Len(Val(mp_call).target_pids) = 0
    /\ IF mp_pc = "all"
          THEN mp_all' = Val(mp_call).activation_results /\ mp_pc' = "returned"
                  /\ UNCHANGED mp_one
          ELSE mp_one' = Val(mp_call).activation_results /\ mp_pc' = "both"
                  /\ UNCHANGED mp_all
    /\ mp_call' = None
    /\ UNCHANGED <<mp_data, mp_order, mp_pid, notProducts>>

ProductsNext == CallForAll \/ ProductWeek \/ ReturnRows \/ CallForOne

---------------------------------------------------------------------------
(* Specification SpecPreprocess: preprocess (lines 12-112) on a sales      *)
(* table and a cost/stock table. Dates are day numbers, day 0 a Monday.    *)

\* lines 58-59: the Monday of the week of a date
WeekStart(date) == date - (date % 7)

\* DataFrame.sort_values: the rows in an order in which their keys do not decrease
\* (rows with equal keys in either order: the default sort is not stable)
SortValues(rows, keys) ==
    {[i \in 1 .. Len(rows) |-> rows[p[i]]] :
        p \in {q \in Orderings(1 .. Len(rows)) :
                  \A i, j \in 1 .. Len(rows) : i < j => keys[q[i]] <= keys[q[j]]}}

\* the greatest and the least element of a non-empty set of integers
SetMax(S) == CHOOSE x \in S : \A y \in S : y <= x

SetMin(S) == CHOOSE x \in S : \A y \in S : x <= y

\* the variant of the backward search that takes only records before the sale date
MergeAsofBackwardStrict(sale, costs) ==
    LET found == {k \in 1 .. Len(costs) : /\ costs[k].product_id = sale.product_id
                                         /\ costs[k].date < sale.recorded_on}
    IN  IF found = {} THEN None ELSE Some(costs[SetMax(found)].cost)

\* lines 24-31: merge_asof, direction backward: the last row of the sorted costs of the
\* same product whose date is on or before the sale date; NaN when there is none
MergeAsofBackward(sale, costs) ==
    LET found == {k \in 1 .. Len(costs) : /\ costs[k].product_id = sale.product_id
                                         /\ costs[k].date <= sale.recorded_on}
    IN  IF found = {} THEN None ELSE Some(costs[SetMax(found)].cost)

\* lines 34-42: merge_asof, direction forward: the first row on or after the sale date
MergeAsofForward(sale, costs) ==
    LET found == {k \in 1 .. Len(costs) : /\ costs[k].product_id = sale.product_id
                                         /\ costs[k].date >= sale.recorded_on}
    IN  IF found = {} THEN None ELSE Some(costs[SetMin(found)].cost)

\* line 45: cost.fillna(cost_fwd).fillna(0)
CostAtSale(sale, costs) ==
    IF ~ IsNone(MergeAsofBackward(sale, costs)) THEN Val(MergeAsofBackward(sale, costs))
    ELSE IF ~ IsNone(MergeAsofForward(sale, costs)) THEN Val(MergeAsofForward(sale, costs))
    ELSE 0

\* lines 20-58: the sales in date order, each with cost_at_sale and week_start
SalesWithCost(sales, costs) ==
    [i \in 1 .. Len(sales) |->
        [product_id |-> sales[i].product_id, recorded_on |-> sales[i].recorded_on,
         price |-> sales[i].price, quantity |-> sales[i].quantity,
         cost_at_sale |-> CostAtSale(sales[i], costs),
         week_start |-> WeekStart(sales[i].recorded_on)]]

\* line 56 summed as on lines 70-74: the sum of cost_at_sale * quantity
RECURSIVE CostVolume(_)
CostVolume(txs) ==
    IF Len(txs) = 0 THEN 0
    ELSE Head(txs).cost_at_sale * Head(txs).quantity + CostVolume(Tail(txs))

\* the sum of the stock of cost rows
RECURSIVE StockSum(_)
StockSum(rows) ==
    IF Len(rows) = 0 THEN 0 ELSE Head(rows).stock + StockSum(Tail(rows))

\* lines 70-74: weekly_sales, one row per product and week with a sale
WeeklySales(sales) ==
    {[product_id |-> s.product_id, week_start |-> s.week_start,
      revenue |-> Revenue(SelectSeq(sales, LAMBDA t : t.product_id = s.product_id
                                                        /\ t.week_start = s.week_start)),
      quantity |-> Quantity(SelectSeq(sales, LAMBDA t : t.product_id = s.product_id
                                                          /\ t.week_start = s.week_start)),
      cost_volume |-> CostVolume(SelectSeq(sales, LAMBDA t : t.product_id = s.product_id
                                                               /\ t.week_start = s.week_start))] :
        s \in {sales[i] : i \in 1 .. Len(sales)}}

\* lines 78-86: control_weekly_sales, one row per week with a sale of a control product
ControlWeeklySales(sales, control_product_ids) ==
    {[week_start |-> s.week_start,
      control_revenue |->
          Revenue(SelectSeq(sales, LAMBDA t : t.product_id \in control_product_ids
                                                /\ t.week_start = s.week_start)),
      control_cost_volume |->
          CostVolume(SelectSeq(sales, LAMBDA t : t.product_id \in control_product_ids
                                                   /\ t.week_start = s.week_start))] :
        s \in {sales[i] : i \in {k \in 1 .. Len(sales) :
                                     sales[k].product_id \in control_product_ids}}}

\* line 91: weekly_stock, the mean stock (sum over count) per product and week
WeeklyStock(costs) ==
    {[product_id |-> c.product_id, week_start |-> WeekStart(c.date),
      stock |-> <<StockSum(SelectSeq(costs, LAMBDA r : r.product_id = c.product_id
                                            /\ WeekStart(r.date) = WeekStart(c.date))),
                  Len(SelectSeq(costs, LAMBDA r : r.product_id = c.product_id
                                       /\ WeekStart(r.date) = WeekStart(c.date)))>>] :
        c \in {costs[i] : i \in 1 .. Len(costs)}}

\* lines 96-97: weekly_stock_days, the number of rows with stock > 0 per product and week
WeeklyStockDays(costs) ==
    {[product_id |-> c.product_id, week_start |-> WeekStart(c.date),
      has_stock |-> Len(SelectSeq(costs, LAMBDA r : /\ r.product_id = c.product_id
                                                    /\ WeekStart(r.date) = WeekStart(c.date)
                                                    /\ r.stock > 0))] :
        c \in {costs[i] : i \in 1 .. Len(costs)}}

\* lines 75, 92, 100, 111, 112: the keys (product_id, week_start) of a weekly table
LookupKeys(weekly) == {<<r.product_id, r.week_start>> : r \in weekly}

\* lines 106-108: the rows of a weekly table before last_week_start
BeforeWeek(weekly, last_week_start) == {r \in weekly : r.week_start < last_week_start}

\* lines 20-112: the tables preprocess leaves on the calculator, from the sales and
\* the costs as sorted on lines 20-21
PreprocessOf(sorted_sales, sorted_costs, test_product_ids) ==
    LET sales == SalesWithCost(sorted_sales, sorted_costs)
        all_products == {sales[i].product_id : i \in 1 .. Len(sales)}
        control_product_ids == all_products \ test_product_ids
        max_date == SetMax({sales[i].recorded_on : i \in 1 .. Len(sales)})
        last_week_start == WeekStart(max_date)
        weekly_stock_days == WeeklyStockDays(sorted_costs)
    IN  IF max_date % 7 # 6
            THEN [sales |-> sales,
                  weekly_sales |-> BeforeWeek(WeeklySales(sales), last_week_start),
                  sales_lookup |->
                      LookupKeys(BeforeWeek(WeeklySales(sales), last_week_start)),
                  control_weekly_sales |->
                      BeforeWeek(ControlWeeklySales(sales, control_product_ids),
                                 last_week_start),
                  weekly_stock |-> BeforeWeek(WeeklyStock(sorted_costs), last_week_start),
                  stock_lookup |->
                      LookupKeys(BeforeWeek(WeeklyStock(sorted_costs), last_week_start)),
                  weekly_stock_days |-> weekly_stock_days,
                  stock_days_lookup |-> LookupKeys(weekly_stock_days)]
        ELSE [sales |-> sales,
              weekly_sales |-> WeeklySales(sales),
              sales_lookup |-> LookupKeys(WeeklySales(sales)),
              control_weekly_sales |-> ControlWeeklySales(sales, control_product_ids),
              weekly_stock |-> WeeklyStock(sorted_costs),
              stock_lookup |-> LookupKeys(WeeklyStock(sorted_costs)),
              weekly_stock_days |-> weekly_stock_days,
              stock_days_lookup |-> LookupKeys(weekly_stock_days)]

\* the dates of the tables: the Sunday of week 0, the Monday and the Wednesday of week 1
PreprocessDays == {6, 7, 9}

\* product 1 is a test product, product 2 is not
PreprocessProducts == {1, 2}

PreprocessTestIds == {1}

SaleRows ==
    [product_id : PreprocessProducts, recorded_on : PreprocessDays,
     price : {10000}, quantity : {1}]

CostRows ==
    {[product_id |-> p, date |-> d, cost |-> c[1], stock |-> c[2]] :
        p \in PreprocessProducts, d \in PreprocessDays, c \in {<<5000, 0>>, <<7000, 3>>}}

\* the sequences of at most n elements of S
SeqUpTo(S, n) == UNION {[1 .. k -> S] : k \in 0 .. n}

PreprocessIdle ==
    /\ pp_pc = "idle"
    /\ pp_sales = <<>>
    /\ pp_costs = <<>>
    /\ pp_out = None

\* the tables as read from the workbook, in any row order, with at least one sale
PreprocessInit ==
    /\ pp_pc = "start"
    /\ pp_sales \in SeqUpTo(SaleRows, MaxSales) \ {<<>>}
    /\ pp_costs \in SeqUpTo(CostRows, MaxCostRecords)
    /\ pp_out = None

\* preprocess()
Preprocess ==
    /\ pp_pc = "start"
    /\ \E sorted_sales \in SortValues(pp_sales, [i \in 1 .. Len(pp_sales) |->
                                                       pp_sales[i].recorded_on]) :
         \E sorted_costs \in SortValues(pp_costs, [i \in 1 .. Len(pp_costs) |->
                                                         pp_costs[i].date]) :
           \E out \in {PreprocessOf(sorted_sales, sorted_costs, PreprocessTestIds)} :
              pp_out' = Some(out)
    /\ pp_pc' = "done"
    /\ UNCHANGED <<pp_sales, pp_costs, notPreprocess>>

PreprocessNext == Preprocess

---------------------------------------------------------------------------
(* Specification SpecEvidence: calculate with activation_threshold set     *)
(* (lines 1398-1735) for one test product and the control group:           *)
(* get_activation_details first (lines 1411-1423), then the loop over the  *)
(* available weeks.  Week 0 is the week of the product's first order.      *)

\* the weeks from week 0 to the last week of weekly_sales are at most this many
MaxEvidenceWeeks == 2

\* the rows of one week: the price of the product's sale of the week (None when it
\* has no sales), whether the control group has a row in control_weekly_sales, and
\* the product's average stock of the week
EvidenceWeek(prm) ==
    {[sale_price |-> p, control |-> c, stock |-> k] :
        p \in {None, Some(10000), Some(12000)},
        c \in BOOLEAN,
        k \in IF prm.use_stock_filter THEN {4, 10} ELSE {10}}

\* the data of a run: the arguments, the day of week 0 on which the only order (plan
\* price 100.00) takes effect, the last pre-test fact price, and the weeks up to the
\* last week of weekly_sales, which has a row of the product or of the control group
EvidenceInputs ==
    UNION {{[prm |-> prm, first_order_day |-> d, pre_test_fact_price |-> pre, weeks |-> ws] :
               d \in OrderDays, pre \in PreTestFactPrices,
               ws \in UNION {{s \in [1 .. n -> EvidenceWeek(prm)] :
                                 ~ IsNone(s[n].sale_price) \/ s[n].control} :
                             n \in 1 .. MaxEvidenceWeeks}} :
           prm \in EffectParams}

\* self.sales of the product in week wk: one unit on the Thursday
EvidenceSales(data, wk) ==
    IF IsNone(data.weeks[wk + 1].sale_price) THEN <<>>
    ELSE <<[recorded_on |-> 7 * wk + 3, price |-> Val(data.weeks[wk + 1].sale_price),
            quantity |-> 1]>>

\* lines 1426-1440: the first week of the test period is week 0 when the first order
\* takes effect on a Monday, and week 1 otherwise
TestPeriodStartWeek(data) == IF data.first_order_day = 0 THEN 0 ELSE 1

\* lines 1443-1495 on a pre-test history with full stock and sales in both weeks
EvidenceBaseline ==
    ComputeBaselineOf([w \in PreWeeks |-> 7], [w \in PreWeeks |-> 10],
                      [w \in PreWeeks |-> [revenue |-> 1000, cost_volume |-> 600]],
                      [w \in PreWeeks |-> [control_revenue |-> 500,
                                           control_cost_volume |-> 300]],
                      2, 80, TRUE)

\* lines 1497-1516: what the loop over the weeks reads for the week at distance k - 1
\* from test_period_start_week: the control row, the product's weekly_sales row (cost
\* 60.00 a unit), stock_lookup and activation_status_map
EvidenceWeekData(data, status_map, k) ==
    LET wk == TestPeriodStartWeek(data) + k - 1
        w == data.weeks[wk + 1]
    IN  [control |-> IF w.control
                     THEN Some([control_revenue |-> 600, control_cost_volume |-> 300])
                     ELSE None,
         sales |-> IF IsNone(w.sale_price) THEN None
                   ELSE Some([revenue |-> Val(w.sale_price), cost_volume |-> 6000]),
         stock |-> Some(w.stock),
         status |-> IF wk \in DOMAIN status_map THEN Some(status_map[wk]) ELSE None]

EvidenceIdle ==
    /\ ev_pc = "idle"
    /\ ev_data = None
    /\ ev_walk = None
    /\ activation_df = <<>>
    /\ activation_status_map = <<>>
    /\ ev_results = <<>>

EvidenceInit ==
    /\ ev_pc = "classify"
    /\ ev_data \in {Some(d) : d \in EvidenceInputs}
    /\ ev_walk = Some([week |-> 0,
                       st |-> InitialRunningState(Val(ev_data).pre_test_fact_price)])
    /\ activation_df = <<>>
    /\ activation_status_map = <<>>
    /\ ev_results = <<>>

\* line 1413 -> lines 331-642: one pass of the loop over test_weeks, which run from
\* week 0 to the last week of weekly_sales
ClassifyTestWeek ==
    /\ ev_pc = "classify"
    /\ Val(ev_walk).week < Len(Val(ev_data).weeks)
    /\ LET data == Val(ev_data)
           wk == Val(ev_walk).week
       IN  \E out \in {ProcessWeek(ProductsParams,
                                    <<[start_week |-> 0, New_Price |-> 10000]>>,
                                    data.first_order_day, EvidenceSales(data, wk), wk,
                                    Val(ev_walk).st)} :
              /\ ~ out.raised
              /\ activation_df' = IF out.skipped THEN activation_df
                                  ELSE Append(activation_df, Val(out.row))
              /\ ev_walk' = Some([week |-> wk + 1, st |-> out.st])
    /\ UNCHANGED <<ev_pc, ev_data, activation_status_map, ev_results, notEvidence>>

\* lines 1420-1424: activation_status_map, from the rows of activation_df
BuildStatusMap ==
    /\ ev_pc = "classify"
    /\ Val(ev_walk).week = Len(Val(ev_data).weeks)
    /\ activation_status_map' =
           [w \in {activation_df[j].week_start : j \in 1 .. Len(activation_df)} |->
               LET j == CHOOSE i \in 1 .. Len(activation_df) :
                            /\ activation_df[i].week_start = w
                            /\ \A l \in 1 .. Len(activation_df) :
                                   activation_df[l].week_start = w => l <= i
               IN  activation_df[j].Status]
    /\ ev_walk' = Some([week |-> 1, st |-> Val(ev_walk).st])
    /\ ev_pc' = "weeks"
    /\ UNCHANGED <<ev_data, activation_df, ev_results, notEvidence>>

\* lines 1497-1698: the week at distance ev_walk.week - 1 from test_period_start_week:
\* one pass of "for week in available_weeks" when the control group has a row for it
EstimateAvailableWeek ==
    /\ ev_pc = "weeks"
    /\ LET data == Val(ev_data)
           first == TestPeriodStartWeek(data)
           k == Val(ev_walk).week
       IN  /\ first + k - 1 < Len(data.weeks)
           /\ \E out \in {EstimateWeekOf(data.prm, EvidenceBaseline, first,
                                         [j \in 1 .. k |->
                                             EvidenceWeekData(data, activation_status_map,
                                                              j)], k)} :
                  ev_results' = IF IsNone(out) THEN ev_results
                                ELSE Append(ev_results, Val(out))
           /\ ev_walk' = Some([week |-> k + 1, st |-> Val(ev_walk).st])
    /\ UNCHANGED <<ev_pc, ev_data, activation_df, activation_status_map, notEvidence>>

\* available_weeks is exhausted
FinishEvidence ==
    /\ ev_pc = "weeks"
    /\ TestPeriodStartWeek(Val(ev_data)) + Val(ev_walk).week - 1 >= Len(Val(ev_data).weeks)
    /\ ev_pc' = "done"
    /\ UNCHANGED <<ev_data, ev_walk, activation_df, activation_status_map, ev_results,
                   notEvidence>>

EvidenceNext == ClassifyTestWeek \/ BuildStatusMap \/ EstimateAvailableWeek \/ FinishEvidence

---------------------------------------------------------------------------
(* Specification SpecStockDays: the stock-days figure of one week of one   *)
(* product, as preprocess builds it (lines 94-99) and as the pre-test      *)
(* selector reads it (lines 132, 146, 209-211), from a cost/stock history  *)
(* that has records for every day of the week.                             *)

\* a date has at most this many records of the product
MaxSameDate == 2

\* the days of week 0
DaysOfWeek == 0 .. 6

\* the cost/stock records of one date: the same stock on each of them
DayRecords == [count : 1 .. MaxSameDate, stock : {0, 3}]

\* the costs table of product 1 in date order (line 21), from the records of each day
RECURSIVE CostsOfDays(_, _)
CostsOfDays(days, d) ==
    IF d > 6 THEN <<>>
    ELSE [i \in 1 .. days[d].count |->
             [product_id |-> 1, date |-> d, cost |-> 5000, stock |-> days[d].stock]]
         \o CostsOfDays(days, d + 1)

\* lines 98-99 and 209-211: stock_days_lookup.get((pid, w), 0) and stock_pct, which is
\* stock_days / 7 * 100
StockDaysOf(costs, pid, w) ==
    LET found == {r \in WeeklyStockDays(costs) : r.product_id = pid /\ r.week_start = w}
        stock_days == IF found = {} THEN 0 ELSE (CHOOSE r \in found : TRUE).has_stock
    IN  [stock_days |-> stock_days, stock_pct |-> Ratio(stock_days * 100, 7)]

StockDaysIdle ==
    /\ sd_pc = "idle"
    /\ sd_costs = <<>>
    /\ sd_out = None

StockDaysInit ==
    /\ sd_pc = "start"
    /\ sd_costs \in {CostsOfDays(days, 0) : days \in [DaysOfWeek -> DayRecords]}
    /\ sd_out = None

\* preprocess (lines 94-99) followed by the selector's lookup of week 0 of product 1
ReadStockDays ==
    /\ sd_pc = "start"
    /\ \E out \in {StockDaysOf(sd_costs, 1, 0)} : sd_out' = Some(out)
    /\ sd_pc' = "done"
    /\ UNCHANGED <<sd_costs, notStockDays>>

StockDaysNext == ReadStockDays

---------------------------------------------------------------------------
(* Specification SpecRevaluation: analyze_revaluation_activation (lines    *)
(* 646-873) for one product with one or two price-change orders: the call  *)
(* of get_activation_details (line 664), then one pass of the loop over    *)
(* the revaluations for each order date.                                   *)

\* the weeks from week 0 to the last week of weekly_sales are at most this many
MaxRevaluationWeeks == 3

\* the data of a run: the product's orders (the first on the Monday of week 0, a second
\* one on a later Monday or none), the price of its sale of each week (None when it
\* has no sales) and its last pre-test fact price
RevaluationInputs ==
    {[orders |-> <<[start_week |-> 0, New_Price |-> 10000]>> \o second,
      sale_prices |-> sp, pre_test_fact_price |-> pre] :
        second \in {<<>>} \cup {<<[start_week |-> w, New_Price |-> 12000]>> :
                                    w \in 1 .. MaxRevaluationWeeks - 1},
        sp \in UNION {[1 .. n -> {None, Some(10000), Some(12000), Some(13000)}] :
                         n \in 1 .. MaxRevaluationWeeks},
        pre \in PreTestFactPrices}

\* self.sales of the product in week wk: one unit on the Thursday
RevaluationSales(data, wk) ==
    IF IsNone(data.sale_prices[wk + 1]) THEN <<>>
    ELSE <<[recorded_on |-> 7 * wk + 3, price |-> Val(data.sale_prices[wk + 1]),
            quantity |-> 1]>>

\* lines 694-849: the detail row of one product of a revaluation whose planned week is
\* planned_week, from the product's rows of activation_df (there is at least one)
RevaluationDetail(product_activation, planned_week) ==
    LET n == Len(product_activation)
        planned_week_data ==
            SelectSeq(product_activation, LAMBDA r : r.week_start = planned_week)
        later_weeks_data ==
            SelectSeq(product_activation,
                      LAMBDA r : r.week_start > planned_week /\ r.Can_Use_In_Analysis)
        has_ok_status == \E i \in 1 .. n : product_activation[i].Can_Use_In_Analysis
        after_planned ==
            SelectSeq(product_activation, LAMBDA r : r.week_start >= planned_week)
        planned_row_data ==
            IF Len(planned_week_data) > 0 THEN planned_week_data[1]
            ELSE IF Len(after_planned) > 0 THEN after_planned[1]
            ELSE product_activation[1]
    IN
    IF n = 0
    THEN [planned_week |-> planned_week, status |-> "rejected",
          status_reason |-> "NoActivationData", activation_week |-> None]
    ELSE IF Len(planned_week_data) > 0 /\ planned_week_data[1].Can_Use_In_Analysis
    THEN [planned_week |-> planned_week, status |-> "activated_on_time",
          status_reason |-> "ActivatedInPlannedWeek", activation_week |-> Some(planned_week)]
    ELSE IF Len(later_weeks_data) > 0
    THEN [planned_week |-> planned_week, status |-> "activated_later",
          status_reason |-> "ActivatedLater",
          activation_week |-> Some(later_weeks_data[1].week_start)]
    ELSE IF ~ has_ok_status
    THEN [planned_week |-> planned_week, status |-> "rejected",
          status_reason |-> planned_row_data.Status, activation_week |-> None]
    ELSE [planned_week |-> planned_week, status |-> "rejected",
          status_reason |-> "UnexpectedStatus", activation_week |-> None]

RevaluationIdle ==
    /\ rv_pc = "idle"
    /\ rv_data = None
    /\ rv_walk = None
    /\ rv_activation = <<>>
    /\ detail_results = <<>>

RevaluationInit ==
    /\ rv_pc = "classify"
    /\ rv_data \in {Some(d) : d \in RevaluationInputs}
    /\ rv_walk = Some([week |-> 0,
                       st |-> InitialRunningState(Val(rv_data).pre_test_fact_price)])
    /\ rv_activation = <<>>
    /\ detail_results = <<>>

\* line 664 -> lines 331-642: one pass of the loop over test_weeks
ClassifyRevaluationWeek ==
    /\ rv_pc = "classify"
    /\ Val(rv_walk).week < Len(Val(rv_data).sale_prices)
    /\ LET data == Val(rv_data)
           wk == Val(rv_walk).week
       IN  \E out \in {ProcessWeek(ProductsParams, data.orders, 0,
                                    RevaluationSales(data, wk), wk, Val(rv_walk).st)} :
              /\ ~ out.raised
              /\ rv_activation' = IF out.skipped THEN rv_activation
                                  ELSE Append(rv_activation, Val(out.row))
              /\ rv_walk' = Some([week |-> wk + 1, st |-> out.st])
    /\ UNCHANGED <<rv_pc, rv_data, detail_results, notRevaluation>>

\* lines 664-677: get_activation_details returns, the revaluations are grouped by date
GroupRevaluations ==
    /\ rv_pc = "classify"
    /\ Val(rv_walk).week = Len(Val(rv_data).sale_prices)
    /\ rv_walk' = Some([week |-> 1, st |-> Val(rv_walk).st])
    /\ rv_pc' = "revaluations"
    /\ UNCHANGED <<rv_data, rv_activation, detail_results, notRevaluation>>

\* lines 682-849: one pass of "for reval_date, reval_group in revaluations", for the
\* order at position rv_walk.week
AnalyzeRevaluation ==
    /\ rv_pc = "revaluations"
    /\ Val(rv_walk).week <= Len(Val(rv_data).orders)
    /\ \E out \in {RevaluationDetail(rv_activation,
                                     Val(rv_data).orders[Val(rv_walk).week].start_week)} :
          detail_results' = Append(detail_results, out)
    /\ rv_walk' = Some([week |-> Val(rv_walk).week + 1, st |-> Val(rv_walk).st])
    /\ UNCHANGED <<rv_pc, rv_data, rv_activation, notRevaluation>>

\* lines 864-873: the call returns
ReturnDetails ==
    /\ rv_pc = "revaluations"
    /\ Val(rv_walk).week > Len(Val(rv_data).orders)
    /\ rv_pc' = "done"
    /\ UNCHANGED <<rv_data, rv_walk, rv_activation, detail_results, notRevaluation>>

RevaluationNext ==
    ClassifyRevaluationWeek \/ GroupRevaluations \/ AnalyzeRevaluation \/ ReturnDetails

---------------------------------------------------------------------------
(* Specification SpecHistory: save_presentation_and_manage_history         *)
(* (src/presentation_builder.py lines 228-262) called again and again on   *)
(* one directory with the same max_history.  The clock counts half         *)
(* seconds; a file name carries the time to the second.                    *)

\* the calls of a run are at most this many
MaxSaves == 6

\* max_history is at most this
MaxHistory == 3

\* lines 237-238: datetime.now().strftime("%Y%m%d_%H%M%S") in the file name
Filename(now) == now \div 2

\* lines 249-257: while len(history) > max_history the oldest entry is popped and its
\* file, if it exists, unlinked
RECURSIVE PopOld(_, _, _)
PopOld(history, files, max_history) ==
    IF Len(history) > max_history
    THEN PopOld(Tail(history), files \ {Head(history)}, max_history)
    ELSE [history |-> history, files |-> files]

\* lines 241-260: the history file and the presentation files after a call that
\* saves under filename
SaveOf(history, files, filename, max_history) ==
    LET kept == PopOld(Append(history, filename), files, max_history)
    IN  [history |-> kept.history, files |-> kept.files \cup {filename}]

HistoryIdle ==
    /\ hs_max_history = 0
    /\ hs_now = 0
    /\ hs_history = <<>>
    /\ hs_files = {}
    /\ hs_saved = <<>>

\* an empty static directory
HistoryInit ==
    /\ hs_max_history \in 1 .. MaxHistory
    /\ hs_now = 0
    /\ hs_history = <<>>
    /\ hs_files = {}
    /\ hs_saved = <<>>

\* one call, half a second or a second after the call before
SavePresentation ==
    /\ hs_max_history > 0
    /\ Len(hs_saved) < MaxSaves
    /\ \E later \in {1, 2} :
          /\ hs_now' = hs_now + later
          /\ \E out \in {SaveOf(hs_history, hs_files, Filename(hs_now'), hs_max_history)} :
                 /\ hs_history' = out.history
                 /\ hs_files' = out.files
          /\ hs_saved' = Append(hs_saved, Filename(hs_now'))
    /\ UNCHANGED <<hs_max_history, notHistory>>

HistoryNext == SavePresentation

---------------------------------------------------------------------------
(* Specifications *)

ActivationIdle ==
    /\ act_pc = "idle"
    /\ params = None
    /\ product_prices = <<>>
    /\ test_week = 0
    /\ last_known_is_our_price = FALSE
    /\ is_first_period = TRUE
    /\ blocked_same_price = FALSE
    /\ last_applied_plan_price = None
    /\ prev_fact_price = None
    /\ activation_weeks = <<>>
    /\ last_row = None
    /\ pre_test_fact_price = None

InitRound == RoundInit /\ SelectIdle /\ ActivationIdle /\ EffectIdle /\ WapIdle /\ ProductsIdle /\ PreprocessIdle /\ EvidenceIdle /\ StockDaysIdle /\ RevaluationIdle /\ HistoryIdle

SpecRound == InitRound /\ [][RoundNext]_vars

InitSelect == SelectInit /\ RoundIdle /\ ActivationIdle /\ EffectIdle /\ WapIdle /\ ProductsIdle /\ PreprocessIdle /\ EvidenceIdle /\ StockDaysIdle /\ RevaluationIdle /\ HistoryIdle

SpecSelect == InitSelect /\ [][SelectNext]_vars

Init == ActivationInit /\ RoundIdle /\ SelectIdle /\ EffectIdle /\ WapIdle /\ ProductsIdle /\ PreprocessIdle /\ EvidenceIdle /\ StockDaysIdle /\ RevaluationIdle /\ HistoryIdle

Next == ClassifyWeek \/ FinishWalk

Spec == Init /\ [][Next]_vars

InitEffect == EffectInit /\ RoundIdle /\ SelectIdle /\ ActivationIdle /\ WapIdle /\ ProductsIdle /\ PreprocessIdle /\ EvidenceIdle /\ StockDaysIdle /\ RevaluationIdle /\ HistoryIdle

SpecEffect == InitEffect /\ [][EffectNext]_vars

InitWap == WapInit /\ RoundIdle /\ SelectIdle /\ ActivationIdle /\ EffectIdle /\ ProductsIdle /\ PreprocessIdle /\ EvidenceIdle /\ StockDaysIdle /\ RevaluationIdle /\ HistoryIdle

SpecWap == InitWap /\ [][WapNext]_vars

InitProducts == ProductsInit /\ RoundIdle /\ SelectIdle /\ ActivationIdle /\ EffectIdle /\ WapIdle /\ PreprocessIdle /\ EvidenceIdle /\ StockDaysIdle /\ RevaluationIdle /\ HistoryIdle

SpecProducts == InitProducts /\ [][ProductsNext]_vars

InitOrders == OrdersInit /\ RoundIdle /\ SelectIdle /\ EffectIdle /\ WapIdle /\ ProductsIdle /\ PreprocessIdle /\ EvidenceIdle /\ StockDaysIdle /\ RevaluationIdle /\ HistoryIdle

SpecOrders == InitOrders /\ [][OrdersNext]_vars

InitPreprocess == PreprocessInit /\ RoundIdle /\ SelectIdle /\ ActivationIdle /\ EffectIdle /\ WapIdle /\ ProductsIdle /\ EvidenceIdle /\ StockDaysIdle /\ RevaluationIdle /\ HistoryIdle

SpecPreprocess == InitPreprocess /\ [][PreprocessNext]_vars

InitEvidence == EvidenceInit /\ RoundIdle /\ SelectIdle /\ ActivationIdle /\ EffectIdle /\ WapIdle /\ ProductsIdle /\ PreprocessIdle /\ StockDaysIdle /\ RevaluationIdle /\ HistoryIdle

SpecEvidence == InitEvidence /\ [][EvidenceNext]_vars

InitStockDays == StockDaysInit /\ RoundIdle /\ SelectIdle /\ ActivationIdle /\ EffectIdle /\ WapIdle /\ ProductsIdle /\ PreprocessIdle /\ EvidenceIdle /\ RevaluationIdle /\ HistoryIdle

SpecStockDays == InitStockDays /\ [][StockDaysNext]_vars

InitRevaluation == RevaluationInit /\ RoundIdle /\ SelectIdle /\ ActivationIdle /\ EffectIdle /\ WapIdle /\ ProductsIdle /\ PreprocessIdle /\ EvidenceIdle /\ StockDaysIdle /\ HistoryIdle

SpecRevaluation == InitRevaluation /\ [][RevaluationNext]_vars

InitHistory == HistoryInit /\ RoundIdle /\ SelectIdle /\ ActivationIdle /\ EffectIdle /\ WapIdle /\ ProductsIdle /\ PreprocessIdle /\ EvidenceIdle /\ StockDaysIdle /\ RevaluationIdle

SpecHistory == InitHistory /\ [][HistoryNext]_vars

---------------------------------------------------------------------------
(* Claims about get_activation_details *)

Row == Val(last_row)

\* x is within 1% of the price ref > 0
WithinOnePercent(x, ref) ==
    Abs(x[1] * ref[2] - ref[1] * x[2]) * 100 <= ref[1] * x[2]

\* the row of the first test week has sales at a WAP within 1% of the last
\* pre-test fact price
FirstWeekAtPreTestPrice ==
    /\ ~ IsNone(last_row)
    /\ Row.week_start = 0
    /\ Row.has_sales
    /\ ~ IsNone(pre_test_fact_price)
    /\ WithinOnePercent(Row.Fact_Price, pre_test_fact_price)

\* C1: in a product's first test week, if the week has sales and its WAP is within
\* 1% of the last known pre-test fact price, the record's status is
\* Mismatched-Coincidence and can_use_in_analysis is false, whether or not the WAP
\* also lies within theta% of the current plan price.
C1_FirstWeekCoincidence ==
    FirstWeekAtPreTestPrice =>
        Row.Status = "MismatchedCoincidence" /\ ~ Row.Can_Use_In_Analysis

\* C1 witness: a first week sold at the pre-test price, which is also the plan price
C1_Witness ==
    /\ FirstWeekAtPreTestPrice
    /\ Row.Plan_Price_Current = Some(10000)
    /\ Row.Fact_Price = Frac(10000, 1)
    /\ Row.Status = "MismatchedCoincidence"

SixStates ==
    {"ConfirmedCurrent", "ConfirmedPrevious", "ConfirmedNoSales",
     "MismatchedOffPlan", "MismatchedNoSales", "MismatchedCoincidence"}

\* C2: in every ActivationRecord the status is one of the six states, and
\* can_use_in_analysis is true exactly when the status is one of the three
\* Confirmed states.
C2_SixStates ==
    ~ IsNone(last_row) =>
        /\ Row.Status \in SixStates
        /\ Row.Can_Use_In_Analysis <=>
               Row.Status \in {"ConfirmedCurrent", "ConfirmedPrevious", "ConfirmedNoSales"}

\* C2 witness: a week sold at the previous plan price after a second order
C2_Witness ==
    /\ ~ IsNone(last_row)
    /\ Row.Status = "ConfirmedPrevious"
    /\ Row.Can_Use_In_Analysis
    /\ ~ IsNone(Row.Plan_Price_Previous)

\* C3: the classifier emits exactly one ActivationRecord for each week from the week
\* of the product's first order through the last data week, with no gaps and no
\* duplicates: the walk never ends without its records, and after k weeks the
\* records are those of weeks 0 .. k-1 in order.
C3_OneRecordPerWeek ==
    /\ act_pc # "raised"
    /\ act_pc \in {"walk", "done"} =>
           activation_weeks = [k \in 1 .. test_week |-> k - 1]

\* C13: the classifier never raises on well-typed input: for any orders (a planned
\* price of zero included, with rounding enabled or disabled) and any sales, the walk
\* completes, and when it has completed every test week has its record.
C13_NeverRaises ==
    act_pc \in {"done", "raised"} =>
        (act_pc = "done" /\ Len(activation_weeks) = test_week)

\* the step of the walk that emits the record of a week
EmitsRecord == act_pc = "walk" /\ act_pc' = "walk" /\ test_week' = test_week + 1

\* C16: in a test week without sales the status is Confirmed-NoSales, usable in the
\* analysis, if the record of the previous week is a confirmed one, and
\* Mismatched-NoSales, not usable, otherwise; a first test week without sales is
\* Mismatched-NoSales.
C16_NoSalesFollowsPrevious ==
    [][(EmitsRecord /\ ~ Val(last_row').has_sales) =>
          LET previous_confirmed == ~ IsNone(last_row) /\ Val(last_row).Can_Use_In_Analysis
          IN  /\ Val(last_row').Status = IF previous_confirmed THEN "ConfirmedNoSales"
                                         ELSE "MismatchedNoSales"
              /\ Val(last_row').Can_Use_In_Analysis = previous_confirmed]_vars

\* a week without sales after a confirmed week
C16_Witness ==
    /\ act_pc = "walk"
    /\ test_week >= 2
    /\ ~ Val(last_row).has_sales
    /\ Val(last_row).Status = "ConfirmedNoSales"

\* a coincidence lock applies to a week with the given fact price: the week is in the
\* first period or the lock is set, and the price is within 1% of the previous one
LockApplies(fact_price) ==
    /\ is_first_period \/ blocked_same_price
    /\ ~ IsNone(prev_fact_price)
    /\ prev_fact_price[1] > 0
    /\ FracLeq(PctChange(fact_price, prev_fact_price), 1)

\* the fact price is within theta% of a positive plan price
WithinTheta(fact_price, plan) ==
    plan > 0 /\ WithinPct(fact_price, plan, params.threshold_pct)

\* the status the plan-matching rule gives a week with sales whose active orders are
\* orders: current, else any earlier order or last_applied_plan_price, else off plan
PlanMatchingStatus(fact_price, orders, last_applied) ==
    IF WithinTheta(fact_price, orders[Len(orders)].New_Price) THEN "ConfirmedCurrent"
    ELSE IF \/ \E k \in 1 .. Len(orders) - 1 : WithinTheta(fact_price, orders[k].New_Price)
            \/ (~ IsNone(last_applied) /\ WithinTheta(fact_price, Val(last_applied)))
         THEN "ConfirmedPrevious"
    ELSE "MismatchedOffPlan"

\* C17: in every test week with sales in which no coincidence lock applies, the first
\* test week with several orders included, the status is Confirmed-Current if the WAP
\* is within theta% of the current plan price; otherwise Confirmed-Previous if it is
\* within theta% of an earlier plan price of the product or of
\* last_applied_plan_price; otherwise Mismatched-OffPlan.
C17_PlanMatching ==
    [][(EmitsRecord /\ Val(last_row').has_sales
           /\ ~ LockApplies(Val(last_row').Fact_Price)) =>
          Val(last_row').Status =
              PlanMatchingStatus(Val(last_row').Fact_Price, product_prices',
                                 last_applied_plan_price)]_vars

\* the fact price of the new record is within 1% of the previous fact price
NearPreviousPrice ==
    FracLeq(PctChange(Val(last_row').Fact_Price, prev_fact_price), 1)

\* C18: the first test week flagged Mismatched-Coincidence sets the lock; while the
\* lock is set, a week with sales whose WAP is within 1% of the WAP of the previous
\* week with sales is Mismatched-Coincidence whatever plan it matches and keeps the
\* lock; the first week with sales whose WAP differs by more than 1% releases the lock
\* and gets the status of the plan-matching rule; a week without sales keeps the lock
\* and the reference WAP.
C18_CoincidenceLock ==
    [][EmitsRecord =>
          /\ (test_week = 0 /\ Val(last_row').Status = "MismatchedCoincidence")
                 => blocked_same_price'
          /\ (blocked_same_price /\ Val(last_row').has_sales /\ NearPreviousPrice)
                 => /\ Val(last_row').Status = "MismatchedCoincidence"
                    /\ ~ Val(last_row').Can_Use_In_Analysis
                    /\ blocked_same_price'
                    /\ prev_fact_price' = Val(last_row').Fact_Price
          /\ (blocked_same_price /\ Val(last_row').has_sales /\ ~ NearPreviousPrice)
                 => /\ ~ blocked_same_price'
                    /\ Val(last_row').Status =
                           PlanMatchingStatus(Val(last_row').Fact_Price, product_prices',
                                              last_applied_plan_price)
          /\ (blocked_same_price /\ ~ Val(last_row').has_sales)
                 => /\ blocked_same_price'
                    /\ prev_fact_price' = prev_fact_price]_vars

\* the lock set in the first week has made a later week Mismatched-Coincidence
\* although its price is the current plan price
C18_Witness ==
    /\ act_pc = "walk"
    /\ test_week >= 2
    /\ blocked_same_price
    /\ Val(last_row).Status = "MismatchedCoincidence"
    /\ Val(last_row).Fact_Price = Frac(10000, 1)
    /\ Val(last_row).Plan_Price_Current = Some(10000)

\* the earlier orders whose plan price the fact price matches
EarlierMatches(fact_price, orders) ==
    {k \in 1 .. Len(orders) - 1 : WithinTheta(fact_price, orders[k].New_Price)}

\* C19: after a confirmed week with sales last_applied_plan_price is the plan price
\* that was matched: the current plan price if the WAP matches it, otherwise the
\* chronologically earliest of the earlier plan prices the WAP matches within theta%;
\* weeks without sales, mismatched weeks and coincidence-locked weeks leave it
\* unchanged.
C19_LastApplied ==
    [][EmitsRecord =>
          LET row == Val(last_row')
              orders == product_prices'
          IN  IF row.has_sales /\ row.Status \in {"ConfirmedCurrent", "ConfirmedPrevious"}
                  THEN IF WithinTheta(row.Fact_Price, orders[Len(orders)].New_Price)
                           THEN last_applied_plan_price' = Some(orders[Len(orders)].New_Price)
                       ELSE \E k \in EarlierMatches(row.Fact_Price, orders) :
                               /\ \A j \in EarlierMatches(row.Fact_Price, orders) : k <= j
                               /\ last_applied_plan_price' = Some(orders[k].New_Price)
              ELSE last_applied_plan_price' = last_applied_plan_price]_vars

\* a week confirmed by two earlier plan prices has kept the earlier of them
C19_Witness ==
    /\ act_pc = "walk"
    /\ product_prices = <<[start_week |-> 0, New_Price |-> 11000],
                          [start_week |-> 1, New_Price |-> 10000],
                          [start_week |-> 2, New_Price |-> 12000]>>
    /\ Val(last_row).Status = "ConfirmedPrevious"
    /\ Val(last_row).Fact_Price = Frac(10500, 1)
    /\ last_applied_plan_price = Some(11000)

\* the smallest price not below raw whose kopecks are round_value
SmallestAtOrAbove(raw, round_value) ==
    CHOOSE v \in raw .. raw + 99 : v % 100 = round_value

\* C4: with rounding enabled and direction up, every positive raw plan price, a
\* whole-number price included, is replaced by the smallest value not below it whose
\* fractional part is round_value/100 (100.00 becomes 100.90 for round_value 90), and
\* a fact price within theta% of that value is classified Confirmed-Current (taken
\* in the first week of a product without pre-test sales).
C4_RoundUp ==
    (/\ ~ IsNone(last_row)
     /\ params.use_rounding
     /\ params.round_direction = "up"
     /\ Val(Row.Plan_Price_Unused) > 0)
    => LET rounded == SmallestAtOrAbove(Val(Row.Plan_Price_Unused), params.round_value)
       IN  /\ Row.Plan_Price_Current = Some(rounded)
           /\ (/\ Row.week_start = 0
               /\ IsNone(pre_test_fact_price)
               /\ Row.has_sales
               /\ Abs(Row.Fact_Price[1] - rounded * Row.Fact_Price[2]) * 100
                      <= params.threshold_pct * rounded * Row.Fact_Price[2])
              => Row.Status = "ConfirmedCurrent"

---------------------------------------------------------------------------
(* Claims about the fact price *)

\* revenue and quantity of the transactions of txs dated day d or later
RevenueFromDay(txs, d) ==
    LET f[k \in 0 .. Len(txs)] ==
            IF k = 0 THEN 0
            ELSE f[k - 1] + (IF txs[k].recorded_on >= d
                             THEN txs[k].price * txs[k].quantity ELSE 0)
    IN  f[Len(txs)]

QuantityFromDay(txs, d) ==
    LET f[k \in 0 .. Len(txs)] ==
            IF k = 0 THEN 0
            ELSE f[k - 1] + (IF txs[k].recorded_on >= d THEN txs[k].quantity ELSE 0)
    IN  f[Len(txs)]

\* <<fact price, has sales>> of the transactions dated day d or later
WapFromDay(txs, d) ==
    IF QuantityFromDay(txs, d) = 0 THEN <<Frac(0, 1), FALSE>>
    ELSE <<Frac(RevenueFromDay(txs, d), QuantityFromDay(txs, d)), TRUE>>

\* the days of the transactions on or after the change date priced within theta%
\* of the current plan price
PlanPricedDays ==
    LET plan == Val(wap_in.plan_price_current)
        from == Val(wap_in.price_change_date)
    IN  {wap_in.txs[k].recorded_on : k \in
            {j \in 1 .. Len(wap_in.txs) :
                /\ wap_in.txs[j].recorded_on >= from
                /\ plan > 0
                /\ Abs(wap_in.txs[j].price - plan) * 100
                       <= wap_in.prm.threshold_pct * plan}}

FirstPlanPricedDay == CHOOSE d \in PlanPricedDays : \A e \in PlanPricedDays : d <= e

SmartChangeWeek ==
    /\ wap_pc = "done"
    /\ wap_in.prm.wap_from_change_date
    /\ ~ IsNone(wap_in.price_change_date)

\* C11: in a price-change week with smart-WAP enabled, if the first transaction on
\* or after the change date priced within theta% of the current plan price falls on
\* a day with at least min_days_threshold days remaining until Sunday inclusive, the
\* fact price is computed only from the transactions from that date onward; if there
\* is no such transaction or fewer days remain, the fact price is the whole-week
\* revenue divided by the whole-week quantity.
C11_SmartWap ==
    SmartChangeWeek =>
        LET out == Val(wap_out)
        IN  IF PlanPricedDays # {}
               /\ 7 - FirstPlanPricedDay >= wap_in.prm.min_days_threshold
            THEN <<out[1], out[2]>> = WapFromDay(wap_in.txs, FirstPlanPricedDay)
            ELSE <<out[1], out[2]>> = WapFromDay(wap_in.txs, 0)

\* C11 witness: the order takes effect on Monday, a Monday sale at the old price, the
\* plan price first seen on Thursday: the fact price is Thursday's alone
C11_Witness ==
    /\ SmartChangeWeek
    /\ wap_in.price_change_date = Some(0)
    /\ Len(wap_in.txs) = 2
    /\ wap_in.txs[1] = [recorded_on |-> 0, price |-> 11000, quantity |-> 1]
    /\ wap_in.txs[2].recorded_on = 3
    /\ PlanPricedDays = {3}
    /\ Val(wap_out)[1] = Frac(10000, 1)
    /\ Val(wap_out)[3] = Some(3)

---------------------------------------------------------------------------
(* Claims about get_activation_details over several products *)

\* C12: the records of a product P are the same whether P is classified alone
\* (specific_pid = P, for any product id) or together with the other products in any
\* order: the call for P alone returns exactly the records the call for all products
\* returns for P.
C12_ProductAlone ==
    mp_pc = "both" =>
        mp_one = SelectSeq(mp_all, LAMBDA r : r.product_id = Val(mp_pid))

---------------------------------------------------------------------------
(* Claims about preprocess *)

\* the cost records of the product of a sale
CostRecordsOf(sale) ==
    {pp_costs[k] : k \in {j \in 1 .. Len(pp_costs) : pp_costs[j].product_id = sale.product_id}}

\* the sale has the cost the two-pass rule gives it
HasResolvedCost(sale) ==
    LET earlier == {r \in CostRecordsOf(sale) : r.date <= sale.recorded_on}
        later == {r \in CostRecordsOf(sale) : r.date >= sale.recorded_on}
    IN  IF earlier # {}
            THEN \E r \in earlier : /\ \A q \in earlier : q.date <= r.date
                                    /\ sale.cost_at_sale = r.cost
        ELSE IF later # {}
            THEN \E r \in later : /\ \A q \in later : r.date <= q.date
                                  /\ sale.cost_at_sale = r.cost
        ELSE sale.cost_at_sale = 0

\* the number of rows of a table that are the sale of product p on date d
RowsOn(table, p, d) ==
    Cardinality({k \in 1 .. Len(table) : table[k].product_id = p /\ table[k].recorded_on = d})

\* C14: every sale gets the unit cost of the same product's cost record with the
\* latest date on or before the sale date; without such a record, the cost of the
\* product's earliest record on or after the sale date; and 0 when the product has
\* no cost record. Every sale of the table gets a value.
C14_ResolveCosts ==
    pp_pc = "done" =>
        /\ Len(Val(pp_out).sales) = Len(pp_sales)
        /\ \A p \in PreprocessProducts, d \in PreprocessDays :
               RowsOn(Val(pp_out).sales, p, d) = RowsOn(pp_sales, p, d)
        /\ \A k \in 1 .. Len(pp_sales) : HasResolvedCost(Val(pp_out).sales[k])

\* a sale resolved backward although a later record exists, and a sale of a product
\* without cost records
C14_Witness ==
    /\ pp_pc = "done"
    /\ pp_sales = <<[product_id |-> 1, recorded_on |-> 7, price |-> 10000, quantity |-> 1],
                    [product_id |-> 2, recorded_on |-> 6, price |-> 10000, quantity |-> 1]>>
    /\ pp_costs = <<[product_id |-> 1, date |-> 9, cost |-> 5000, stock |-> 0],
                    [product_id |-> 1, date |-> 6, cost |-> 7000, stock |-> 3]>>
    /\ Val(pp_out).sales[1].cost_at_sale = 0
    /\ Val(pp_out).sales[2].cost_at_sale = 7000

\* the weeks of the rows of a weekly table
WeeksOf(weekly) == {r.week_start : r \in weekly}

\* C15: when the last observed sale date is not a Sunday, no weekly dataset used
\* downstream (product weekly sales, control weekly sales, weekly average stock,
\* weekly stock_days, and the lookups derived from them) has an entry for the partial
\* trailing week or any later week.
C15_WholeWeeksOnly ==
    LET max_date == SetMax({pp_sales[k].recorded_on : k \in 1 .. Len(pp_sales)})
        out == Val(pp_out)
    IN  (pp_pc = "done" /\ max_date % 7 # 6) =>
            \A w \in WeeksOf(out.weekly_sales) \cup WeeksOf(out.control_weekly_sales)
                      \cup WeeksOf(out.weekly_stock) \cup WeeksOf(out.weekly_stock_days)
                      \cup {key[2] : key \in out.sales_lookup \cup out.stock_lookup
                                                \cup out.stock_days_lookup} :
                w < WeekStart(max_date)

---------------------------------------------------------------------------
(* Claims about calculate *)

\* a figure is a number (no division by zero went into it) and is positive
Defined(x) == x[2] > 0

Positive(x) == x[2] > 0 /\ x[1] > 0

\* the product failed a baseline check: no pre-test window, no pre-test week in
\* the aggregates, or a zero baseline
FailedBaselineChecks ==
    IF IsNone(baseline) THEN FALSE
    ELSE IF IsNone(Val(baseline).pre_test_weeks_list) THEN TRUE
    ELSE IF Val(baseline).valid_pre_weeks_count = 0 THEN TRUE
    ELSE Val(Val(baseline).r_tb)[1] = 0 \/ Val(Val(baseline).r_cb)[1] = 0

\* C8: every emitted EffectRecord has R_tb > 0 and R_cb > 0; a product with no valid
\* pre-test window, with no pre-test week present in the aggregates, or with R_tb = 0
\* or R_cb = 0 has no EffectRecord at all; and no figure of a record comes from a
\* division by zero.
C8_PositiveBaselines ==
    /\ \A k \in 1 .. Len(results) :
          /\ Positive(results[k].R_tb)
          /\ Positive(results[k].R_cb)
          /\ Defined(results[k].R_tt)
          /\ Defined(results[k].R_ct)
          /\ Defined(results[k].Effect_Revenue_pct)
          /\ Defined(results[k].Effect_Profit_pct)
          /\ Defined(results[k].Abs_Effect_Revenue)
          /\ Defined(results[k].Abs_Effect_Profit)
    /\ FailedBaselineChecks => results = <<>>

\* C8 witness: a week with an effect, of a product whose baseline profit is zero
C8_Witness ==
    /\ Len(results) > 0
    /\ ~ results[1].Is_Excluded
    /\ results[1].Effect_Revenue_pct # Q(0)
    /\ Val(Val(baseline).p_tb) = Q(0)

\* C9: every EffectRecord with is_excluded = true has absolute revenue effect 0 and
\* absolute profit effect 0 and carries the product's baseline values R_tb and R_cb,
\* which are the same on every record of the product, excluded or not.
C9_ExcludedRows ==
    /\ \A k \in 1 .. Len(results) :
          results[k].Is_Excluded =>
              /\ results[k].Abs_Effect_Revenue = Q(0)
              /\ results[k].Abs_Effect_Profit = Q(0)
              /\ results[k].R_tb = Val(Val(baseline).r_tb)
              /\ results[k].R_cb = Val(Val(baseline).r_cb)
    /\ \A j, k \in 1 .. Len(results) :
          /\ results[j].R_tb = results[k].R_tb
          /\ results[j].R_cb = results[k].R_cb

\* C9 witness: an excluded week after a week that counts
C9_Witness ==
    /\ Len(results) = 2
    /\ ~ results[1].Is_Excluded
    /\ results[2].Is_Excluded
    /\ results[2].R_tb = Q(1000)

\* C10: for a non-excluded week whose actual test revenue is 0, uplift_test is -1,
\* effect_pct is -1 minus the control uplift (actual_control / R_cb - 1), and the
\* absolute revenue effect is 0.
C10_ZeroTestRevenue ==
    \A k \in 1 .. Len(results) :
        (~ results[k].Is_Excluded /\ results[k].R_tt = Q(0)) =>
            /\ QSub(QDiv(results[k].R_tt, results[k].R_tb), Q(1)) = Q(-1)
            /\ results[k].Effect_Revenue_pct =
                   QSub(Q(-1), QSub(QDiv(results[k].R_ct, results[k].R_cb), Q(1)))
            /\ results[k].Abs_Effect_Revenue = Q(0)

\* C10 witness: R_tb = 1000, R_cb = 500, control actual 600, no test revenue:
\* effect_pct = -1.2
C10_Witness ==
    /\ Len(results) > 0
    /\ ~ results[1].Is_Excluded
    /\ results[1].R_tt = Q(0)
    /\ results[1].R_tb = Q(1000)
    /\ results[1].R_cb = Q(500)
    /\ results[1].R_ct = Q(600)
    /\ results[1].Effect_Revenue_pct = <<-6, 5>>
    /\ results[1].Abs_Effect_Revenue = Q(0)

---------------------------------------------------------------------------
(* Claims about round_price *)

\* C5: plan-price rounding is idempotent: for every raw price, every round_value
\* and every direction, round_price(round_price(x)) equals round_price(x).
C5_RoundIdempotent ==
    rp_pc = "twice" => rp_twice = rp_once

\* the prices from 0.00 to two units above the raw prices whose kopecks are target
PricesWithFraction(target) ==
    {v \in 0 .. MaxRawPrice + 200 : v % 100 = target}

\* C20: with direction nearest the rounded price is the value with fractional part
\* round_value/100 closest to the raw price among all such values, the one below the
\* integer part of the raw price included; a raw price whose fractional part equals
\* round_value/100 within 0.01 is returned unchanged (at exactly 0.01 either answer
\* is taken as meeting the claim).
C20_NearestIsClosest ==
    (rp_pc = "once" /\ rp_direction = "nearest" /\ Val(rp_price) > 0) =>
        LET price == Val(rp_price)
            target == ClampRoundValue(rp_round_value)
            closest == /\ ~ IsNone(rp_once)
                       /\ Val(rp_once) \in PricesWithFraction(target)
                       /\ \A v \in PricesWithFraction(target) :
                              Abs(price - Val(rp_once)) <= Abs(price - v)
            unchanged == rp_once = rp_price
        IN  IF price % 100 = target THEN unchanged
            ELSE IF Abs((price % 100) - target) = 1 THEN unchanged \/ closest
            ELSE closest

---------------------------------------------------------------------------
(* Claims about find_valid_pre_test_period *)

\* week w meets the availability threshold: stock_days / 7 >= tau / 100
WeekMeetsThreshold(w) ==
    (IF w \in DOMAIN stock_days_lookup THEN stock_days_lookup[w] ELSE 0) * 100
        >= 7 * threshold_pct

\* the candidate end-weeks (counted in weeks back from the search end-week, 26 of
\* them) whose N-week window has every week at or above the threshold
QualifyingEnds ==
    {i \in 0 .. 25 :
        \A k \in 0 .. n_weeks - 1 : WeekMeetsThreshold(start_search_week - i - k)}

\* C6: in contiguous mode the selector returns the N consecutive weeks ending at the
\* latest of the 26 candidate end-weeks whose window has every week at or above the
\* threshold (so never a window with a week below it), and none exactly when no
\* candidate window qualifies.
C6_ContiguousWindow ==
    (sel_pc = "done" /\ contiguous) =>
        IF QualifyingEnds = {}
        THEN sel_result = None
        ELSE LET i == CHOOSE x \in QualifyingEnds : \A y \in QualifyingEnds : x <= y
             IN  /\ sel_result =
                        Some([k \in 1 .. n_weeks |-> start_search_week - i - n_weeks + k])
                 /\ \A k \in 1 .. n_weeks : WeekMeetsThreshold(Val(sel_result)[k])

\* C6 witness: a window was found only after shifting back past a week below the
\* threshold.
C6_Witness ==
    /\ sel_pc = "done" /\ contiguous /\ n_weeks >= 2
    /\ sel_result # None
    /\ Val(sel_result)[n_weeks] < start_search_week
    /\ ~ WeekMeetsThreshold(Val(sel_result)[n_weeks] + 1)

\* the weeks at or before the search end-week, at most 52 of them, that meet the
\* threshold
GoodWeeksInRange ==
    {w \in (start_search_week - 51) .. start_search_week : WeekMeetsThreshold(w)}

\* C7: in scattered mode the selector returns, in ascending order, the N most recent
\* weeks at or before the search end-week that individually meet the threshold,
\* looking back at most 52 weeks, and none when fewer than N such weeks exist.
C7_ScatteredWeeks ==
    (sel_pc = "done" /\ ~ contiguous) =>
        IF Cardinality(GoodWeeksInRange) < n_weeks
        THEN sel_result = None
        ELSE /\ sel_result # None
             /\ LET r == Val(sel_result)
                     picked == {r[k] : k \in 1 .. Len(r)}
                 IN  /\ Len(r) = n_weeks
                     /\ picked \subseteq GoodWeeksInRange
                     /\ \A k \in 1 .. Len(r) - 1 : r[k] < r[k + 1]
                     /\ \A w \in GoodWeeksInRange \ picked : w < r[1]

\* C7 witness: the weeks returned are not consecutive and reach the last week of
\* the 52-week range.
C7_Witness ==
    /\ sel_pc = "done" /\ ~ contiguous /\ n_weeks >= 2
    /\ sel_result # None
    /\ Val(sel_result)[1] = start_search_week - 51
    /\ Val(sel_result)[2] > Val(sel_result)[1] + 1

---------------------------------------------------------------------------
(* Claims about calculate run with the activation classification *)

\* the rows of activation_df for the week of a row of results
RecordsOfWeek(r) ==
    {j \in 1 .. Len(activation_df) : activation_df[j].week_start = r.week_start}

\* the week of a row of results fails the stock filter, when the filter is enabled:
\* its average stock is below baseline stock x (1 - stock_drop_threshold%)
FailsStockFilter(r) ==
    LET prm == Val(ev_data).prm
    IN  /\ prm.use_stock_filter
        /\ Val(ev_data).weeks[r.week_start + 1].stock * 100
               < 10 * (100 - prm.stock_threshold_pct)

\* C21: with the activation classification enabled, every row of results has
\* exactly one ActivationRecord of the same week, and the row is excluded exactly
\* when its week fails the enabled stock filter or that ActivationRecord has
\* Can_Use_In_Analysis = false
C21_ExcludedExactly ==
    \A i \in 1 .. Len(ev_results) :
        /\ Cardinality(RecordsOfWeek(ev_results[i])) = 1
        /\ \A j \in RecordsOfWeek(ev_results[i]) :
               ev_results[i].Is_Excluded
                   <=> (FailsStockFilter(ev_results[i])
                            \/ ~ activation_df[j].Can_Use_In_Analysis)

\* a finished run with a week that passes the stock filter and is excluded because its
\* ActivationRecord cannot be used, and a later week that is kept as evidence
C21_Witness ==
    /\ ev_pc = "done"
    /\ Len(ev_results) = 2
    /\ ev_results[1].Is_Excluded /\ ~ FailsStockFilter(ev_results[1])
    /\ ~ ev_results[2].Is_Excluded
    /\ \E j \in RecordsOfWeek(ev_results[1]) : activation_df[j].Status = "MismatchedNoSales"

---------------------------------------------------------------------------
(* Claims about the weekly and total effects of calculate *)

\* the position in week_data of the week of a row of results
WeekIndex(r) == r.week_start - test_period_start_week + 1

\* the positions up to k of the weeks that have a non-excluded row in results
ValidWeeksUpTo(k) ==
    {j \in 1 .. k : \E i \in 1 .. Len(results) :
                        WeekIndex(results[i]) = j /\ ~ results[i].Is_Excluded}

\* the product's profit of a week of week_data
TestProfit(d) == SalesRevenue(d) - SalesCostVolume(d)

\* the 'actual' test revenue of a non-excluded row: the week's revenue in week mode,
\* the mean over the valid test weeks up to the row's week in average mode
ActualRevenue(r) ==
    IF eff_params.test_use_week_values THEN Q(SalesRevenue(week_data[WeekIndex(r)]))
    ELSE LET valid == SelectSeq([j \in 1 .. WeekIndex(r) |-> j],
                                LAMBDA j : j \in ValidWeeksUpTo(WeekIndex(r)))
         IN  Ratio(SumSeq([j \in 1 .. Len(valid) |-> SalesRevenue(week_data[valid[j]])]),
                   Len(valid))

\* the 'actual' test profit of a non-excluded row, in the same way
ActualProfit(r) ==
    IF eff_params.test_use_week_values THEN Q(TestProfit(week_data[WeekIndex(r)]))
    ELSE LET valid == SelectSeq([j \in 1 .. WeekIndex(r) |-> j],
                                LAMBDA j : j \in ValidWeeksUpTo(WeekIndex(r)))
         IN  Ratio(SumSeq([j \in 1 .. Len(valid) |-> TestProfit(week_data[valid[j]])]),
                   Len(valid))

\* C22: for every non-excluded row the absolute effect is the relative effect times
\* the 'actual' test metric the uplift was computed from: the week's own value in
\* week mode, the mean over the valid test weeks up to the week in average mode;
\* for revenue and for profit
C22_AbsEffectOfActual ==
    \A i \in 1 .. Len(results) :
        ~ results[i].Is_Excluded =>
            /\ results[i].Abs_Effect_Revenue =
                   QMul(results[i].Effect_Revenue_pct, ActualRevenue(results[i]))
            /\ results[i].Abs_Effect_Profit =
                   QMul(results[i].Effect_Profit_pct, ActualProfit(results[i]))

\* C22 in week mode only
C22_WeekModeOnly ==
    eff_params.test_use_week_values => C22_AbsEffectOfActual

\* the positions in week_data of the weeks for which the datasets have a row of the
\* product or of the control group
DataWeeks ==
    {j \in 1 .. Len(week_data) :
        ~ IsNone(week_data[j].sales) \/ ~ IsNone(week_data[j].control)}

\* C23: once calculate is done with a product that passed the baseline checks,
\* results has exactly one row for every week from the product's test-start week
\* through the last week of the data, weeks without control sales included
C23_OneRowPerWeek ==
    eff_pc = "done" =>
        \A j \in 1 .. Len(week_data) :
            (\E l \in DataWeeks : j <= l) =>
                Cardinality({i \in 1 .. Len(results) : WeekIndex(results[i]) = j}) = 1

\* C23 for the weeks of control_weekly_sales only
C23_OneRowPerControlWeek ==
    eff_pc = "done" =>
        \A j \in 1 .. Len(week_data) :
            Cardinality({i \in 1 .. Len(results) : WeekIndex(results[i]) = j})
                = IF IsNone(week_data[j].control) THEN 0 ELSE 1

\* the non-excluded rows of results, in week order
ValidRows == SelectSeq(results, LAMBDA r : ~ r.Is_Excluded)

\* the revenue and the profit the product realized over the weeks of the test period
RealizedRevenue == SumSeq([j \in 1 .. Len(week_data) |-> SalesRevenue(week_data[j])])

RealizedProfit == SumSeq([j \in 1 .. Len(week_data) |-> TestProfit(week_data[j])])

\* the totals of a product with rows, when the alternate mode multiplies by the given
\* revenue and profit
ClaimedTotals(revenue, profit) ==
    IF Len(ValidRows) = 0 THEN <<Q(0), Q(0)>>
    ELSE IF eff_params.test_use_week_values
    THEN <<QSumSeq([k \in 1 .. Len(ValidRows) |-> ValidRows[k].Abs_Effect_Revenue]),
           QSumSeq([k \in 1 .. Len(ValidRows) |-> ValidRows[k].Abs_Effect_Profit])>>
    ELSE <<QMul(ValidRows[Len(ValidRows)].Effect_Revenue_pct, revenue),
           QMul(ValidRows[Len(ValidRows)].Effect_Profit_pct, profit)>>

\* C24: the total effect of a product with rows is, in sum mode, the sum of the
\* absolute effects of its non-excluded weeks, and in the alternate mode the relative
\* effect of its last non-excluded week times the revenue (profit) it realized over
\* the test period; it is 0 when every week is excluded
C24_TotalEffect ==
    (eff_pc = "done" /\ Len(results) > 0) =>
        Val(totals) = ClaimedTotals(Q(RealizedRevenue), Q(RealizedProfit))

\* C24 with the revenue and profit of the non-excluded rows only
C24_TotalOverValidRows ==
    (eff_pc = "done" /\ Len(results) > 0) =>
        Val(totals) =
            ClaimedTotals(QSumSeq([k \in 1 .. Len(ValidRows) |-> ValidRows[k].Fact_Revenue]),
                          QSumSeq([k \in 1 .. Len(ValidRows) |->
                                      ValidRows[k].Product_Profit]))

---------------------------------------------------------------------------
(* Claims about the stock days of a week *)

\* C25: the stock_days figure the pre-test selector reads for a product and week is
\* an integer between 0 and 7, and the availability share stock_days / 7 is at most
\* 100%, whatever the cost/stock history contains
C25_StockDaysWithinWeek ==
    ~ IsNone(sd_out) =>
        /\ Val(sd_out).stock_days \in 0 .. 7
        /\ ~ QLess(Q(100), Val(sd_out).stock_pct)

\* C25 for a history with one record for each date
C25_OneRecordPerDate ==
    (~ IsNone(sd_out) /\ \A i, j \in 1 .. Len(sd_costs) :
                             sd_costs[i].date = sd_costs[j].date => i = j) =>
        /\ Val(sd_out).stock_days \in 0 .. 7
        /\ ~ QLess(Q(100), Val(sd_out).stock_pct)

---------------------------------------------------------------------------
(* Claims about analyze_revaluation_activation *)

\* the product had Can_Use_In_Analysis = true in some test week
EverUsable == \E i \in 1 .. Len(rv_activation) : rv_activation[i].Can_Use_In_Analysis

\* C26: a product is reported 'rejected' for a revaluation only if it never had
\* Can_Use_In_Analysis = true in any test week, and no detail row comes from the
\* final branch with the reason 'unexpected status'
C26_RejectedNeverUsable ==
    \A i \in 1 .. Len(detail_results) :
        /\ detail_results[i].status = "rejected" => ~ EverUsable
        /\ detail_results[i].status_reason # "UnexpectedStatus"

\* C26 for the weeks from the planned week of the revaluation on
C26_RejectedNotUsableSincePlanned ==
    \A i \in 1 .. Len(detail_results) :
        detail_results[i].status = "rejected" =>
            ~ \E j \in 1 .. Len(rv_activation) :
                  /\ rv_activation[j].week_start >= detail_results[i].planned_week
                  /\ rv_activation[j].Can_Use_In_Analysis

\* C26 for a product with a single revaluation
C26_SingleRevaluation ==
    (rv_pc # "idle" /\ Len(Val(rv_data).orders) = 1) => C26_RejectedNeverUsable

---------------------------------------------------------------------------
(* Claims about the presentation history *)

\* the last n entries of a sequence
LastOf(s, n) == SubSeq(s, Len(s) - Min(n, Len(s)) + 1, Len(s))

\* the history lists at most max_history names, the most recently saved ones in
\* save order
ListsMostRecent ==
    /\ Len(hs_history) <= hs_max_history
    /\ hs_history = LastOf(hs_saved, hs_max_history)

\* C27: after any sequence of calls with the same max_history >= 1 the history lists
\* at most max_history file names in save order, the most recently saved ones, every
\* listed file exists, and every saved file that is no longer listed has been deleted
C27_HistoryMatchesFiles ==
    /\ ListsMostRecent
    /\ \A i \in 1 .. Len(hs_history) : hs_history[i] \in hs_files
    /\ \A i \in 1 .. Len(hs_saved) :
          (\A j \in 1 .. Len(hs_history) : hs_history[j] # hs_saved[i])
              => hs_saved[i] \notin hs_files

\* C27 when no two calls fall into the same second
C27_DistinctSeconds ==
    (\A i, j \in 1 .. Len(hs_saved) : hs_saved[i] = hs_saved[j] => i = j)
        => C27_HistoryMatchesFiles

\* C27 without the existence of the listed files
C27_ListedAndDeleted ==
    /\ ListsMostRecent
    /\ \A i \in 1 .. Len(hs_saved) :
          (\A j \in 1 .. Len(hs_history) : hs_history[j] # hs_saved[i])
              => hs_saved[i] \notin hs_files

---------------------------------------------------------------------------
(* Claims about last_applied_plan_price and the coincidence lock *)

\* all_plan_prices_processed of the week of the new record
ProcessedPlanPrices ==
    [k \in 1 .. Len(product_prices') |->
        ProcessedPrice(params, Some(product_prices'[k].New_Price))]

\* the fact price of the new record matches the current plan price
MatchesCurrentPlan ==
    /\ Val(last_row').has_sales
    /\ MatchesPlan(Val(last_row').Fact_Price,
                   ProcessedPlanPrices[Len(ProcessedPlanPrices)], params.threshold_pct)

\* the fact price of the new record matches an earlier plan price (lines 483-487)
MatchesEarlierPlan ==
    /\ ~ is_first_period
    /\ Val(last_row').has_sales
    /\ Len(ProcessedPlanPrices) > 1
    /\ MatchingPrevious(Val(last_row').Fact_Price, ProcessedPlanPrices,
                        params.threshold_pct) # {}

\* the status and can_use of the new record when the fact price is matched against
\* the current and the earlier plan prices only
StatusWithoutLastApplied ==
    StatusOf(Val(last_row').has_sales,
             /\ IsOurPrice(MatchesCurrentPlan, MatchesEarlierPlan, FALSE)
             /\ ~ (Val(last_row').has_sales /\ LockApplies(Val(last_row').Fact_Price)),
             MatchesCurrentPlan, MatchesEarlierPlan, FALSE,
             Val(last_row').has_sales /\ LockApplies(Val(last_row').Fact_Price),
             last_known_is_our_price)

\* C28: at every week last_applied_plan_price is unset or the processed plan price of
\* an order of the product already in effect, and the status and can_use of the
\* week's record are those that matching against the current and all earlier plan
\* prices only, without the last-applied comparison, gives
C28_LastAppliedRedundant ==
    [][EmitsRecord =>
          /\ \/ IsNone(last_applied_plan_price')
             \/ \E k \in 1 .. Len(ProcessedPlanPrices) :
                    ProcessedPlanPrices[k] = last_applied_plan_price'
          /\ <<Val(last_row').Status, Val(last_row').Can_Use_In_Analysis>>
                 = StatusWithoutLastApplied]_vars

\* a week confirmed by the first of three plan prices, which is the last applied one:
\* the fact price matches neither the current nor the previous plan price
C28_Witness ==
    /\ act_pc = "walk"
    /\ Len(product_prices) = 3
    /\ Val(last_row).Status = "ConfirmedPrevious"
    /\ last_applied_plan_price = Some(product_prices[1].New_Price)
    /\ product_prices[2].New_Price # product_prices[1].New_Price
    /\ ~ WithinTheta(Val(last_row).Fact_Price, product_prices[2].New_Price)
    /\ ~ Val(last_row).Is_Price_Change_Week

---------------------------------------------------------------------------
(* Claims about the plan price of the detailed report *)

\* C29: with rounding on, the plan price get_weekly_details computes equals
\* Plan_Price_Current of the classifier's record (round_price of the raw price with
\* the clamped round_value), for every raw plan price, whole-number prices included,
\* and every round_value, values outside 0..99 included
C29_SamePlanPrice ==
    (rp_pc \in {"once", "twice"} /\ ~ IsNone(rp_weekly)) => Val(rp_weekly) = rp_once

\* C29 for a positive price with kopecks and a round_value within 0..99
C29_FractionalPriceInRange ==
    (/\ rp_pc \in {"once", "twice"}
     /\ ~ IsNone(rp_weekly)
     /\ Val(rp_price) > 0
     /\ Val(rp_price) % 100 # 0
     /\ rp_round_value \in 0 .. 99) => Val(rp_weekly) = rp_once

\* the record emitted last is Mismatched-Coincidence
LastRowCoincidence ==
    ~ IsNone(last_row) /\ Val(last_row).Status = "MismatchedCoincidence"

\* the first test week is over and the lock is not set
NotLocked == act_pc # "idle" /\ test_week >= 1 /\ ~ blocked_same_price

\* the record emitted last is that of a week with sales and is not a coincidence
SalesWeekNotCoincidence ==
    /\ ~ IsNone(last_row)
    /\ Val(last_row).has_sales
    /\ Val(last_row).Status # "MismatchedCoincidence"

\* C30: the first-period flag is true on exactly the first record and the lock is
\* acquired only in the first test week; once the first week is over without the lock
\* or the lock has been released it is never set again and no later record is
\* Mismatched-Coincidence; and after a week with sales that is not Mismatched-
\* Coincidence no later record is, so that these records form an initial run of the
\* weeks with sales
C30_LockOnlyInFirstWeek ==
    /\ [][EmitsRecord =>
             /\ Val(last_row').Is_First_Period <=> test_week = 0
             /\ (blocked_same_price' /\ ~ blocked_same_price) => test_week = 0]_vars
    /\ [](NotLocked => [](NotLocked /\ ~ LastRowCoincidence))
    /\ [](SalesWeekNotCoincidence => [] ~ LastRowCoincidence)

\* after two weeks the lock is not set (it was released or never acquired), and the
\* third week has sales at the pre-test price without being a coincidence
C30_Witness ==
    /\ act_pc = "walk"
    /\ test_week = 3
    /\ ~ blocked_same_price
    /\ ~ IsNone(pre_test_fact_price)
    /\ Val(last_row).has_sales
    /\ Val(last_row).Fact_Price = pre_test_fact_price
    /\ Val(last_row).Status = "MismatchedOffPlan"
    /\ Len(product_prices) = 1
    /\ product_prices[1].New_Price = 11000

====
